---- MODULE Spec2Model ----
(***************************************************************************)
(* Skill-scoring engine of CoachCall-Backend: the EMA skill-score          *)
(* calculator (analytics/service.py), the upsert of the athlete_skills     *)
(* table and the request handlers that drive them (course/service.py,      *)
(* athlete/router.py).                                                     *)
(*                                                                         *)
(* Numbers.  Python floats are modelled as exact rationals                 *)
(* [num, den] in lowest terms; Numeric(p, 2) columns as integers counting  *)
(* hundredths.  round(x, 2) is round-half-even on the exact value.         *)
(* Binary floating-point error below the rounding step is not modelled.    *)
(***************************************************************************)
EXTENDS Integers, Sequences, FiniteSets, TLC

\* ------------------------------------------------------------------ bounds
MaxCompletions == 3
MaxTxCompletions == 2
MaxClock == 2
MaxNow == 5
MaxCount == 12
MaxNewAthletes == 10
MaxHistory == 3
MaxWeekCount == 2
MaxDayCount == 1
MaxLifeCompletions == 2

\* ------------------------------------------------------------ catalogues
\* None / SQL NULL; ids and clock readings start at 1.
None == 0
AthleteIds == {1, 2}
SessionIds == {1, 2, 3}
SkillIds == {1, 2}

\* task_skill_weights rows, per task, weight in hundredths (Numeric(3, 2)).
\* Task 3 holds a weight that was sent as 0.004 and is stored as 0.00.
TaskSkillWeight ==
    [t \in {1, 2, 3} |->
        IF t = 1 THEN << [skill_id |-> 1, weight |-> 100] >>
        ELSE IF t = 2
        THEN << [skill_id |-> 1, weight |-> 50], [skill_id |-> 2, weight |-> 25] >>
        ELSE << [skill_id |-> 1, weight |-> 0] >>]

UserIds == {1, 2}

\* Rows of table athletes.  "a0" is a uuid of no athlete.
Athlete ==
    { [id |-> 1, uuid |-> "a1", user_id |-> 1, is_active |-> TRUE],
      [id |-> 2, uuid |-> "a2", user_id |-> 1, is_active |-> TRUE],
      [id |-> 3, uuid |-> "a3", user_id |-> 1, is_active |-> TRUE],
      [id |-> 4, uuid |-> "a4", user_id |-> 2, is_active |-> TRUE],
      [id |-> 5, uuid |-> "a5", user_id |-> 1, is_active |-> FALSE] }

AthleteUuids == {"a0", "a1", "a4"}

\* Rows of table skills: user 1 has a skill no task weighs, user 2 has none.
Skill ==
    { [id |-> 1, name |-> "Dribbling", user_id |-> 1],
      [id |-> 2, name |-> "Passing", user_id |-> 1],
      [id |-> 3, name |-> "Shooting", user_id |-> 1] }

\* Rows of table sessions, by id: what create_session and create_course
\* leave (is_template is never NULL), sessions 1 and 2 in course 1.
Session ==
    [s \in SessionIds |->
        [user_id |-> 1,
         course_id |-> IF s = 3 THEN None ELSE 1,
         status |-> IF s = 3 THEN "Pending" ELSE "To Do",
         is_template |-> << FALSE >>,
         scheduled_date |-> 1]]

CourseIds == {1}

\* Clock ticks in a calendar day.
TicksPerDay == 2

\* CAST(completed_at AS DATE), completed_at.date(): days count from 1.
CastDate(t) == IF t = None THEN None ELSE (t + TicksPerDay - 1) \div TicksPerDay

\* ------------------------------------------------------------ arithmetic
RECURSIVE Gcd(_, _)
Gcd(a, b) == IF b = 0 THEN a ELSE Gcd(b, a % b)

Abs(x) == IF x < 0 THEN -x ELSE x

Rat(n, d) == LET g == Gcd(Abs(n), d) IN [num |-> n \div g, den |-> d \div g]

RatAdd(x, y) == Rat(x.num * y.den + y.num * x.den, x.den * y.den)
RatMul(x, y) == Rat(x.num * y.num, x.den * y.den)
RatDiv(x, y) == Rat(x.num * y.den, x.den * y.num)
RatZero == Rat(0, 1)

\* float(Decimal) of a Numeric(_, 2) column value.
DecimalToFloat(h) == Rat(h, 100)

\* round(x, 2) as a count of hundredths: nearest, ties to even.
RoundHundredths(x) ==
    LET n == 100 * x.num
        q == n \div x.den
        r == n % x.den
    IN  IF 2 * r > x.den THEN q + 1
        ELSE IF 2 * r < x.den THEN q
        ELSE IF q % 2 = 0 THEN q ELSE q + 1

Round2(x) == Rat(RoundHundredths(x), 100)

\* round(x, 1) as a count of tenths: nearest, ties to even.
RoundTenths(x) ==
    LET n == 10 * x.num
        q == n \div x.den
        r == n % x.den
    IN  IF 2 * r > x.den THEN q + 1
        ELSE IF 2 * r < x.den THEN q
        ELSE IF q % 2 = 0 THEN q ELSE q + 1

Round1(x) == Rat(RoundTenths(x), 10)

\* ------------------------------------------------------------------ state
VARIABLES
    now,               \* datetime.now(UTC), in ticks
    task_completions,  \* rows of table task_completions; tx = 0 when committed
    athlete_skills,    \* committed rows of table athlete_skills
    conn,              \* per database connection: the request it is serving
    report,            \* the last session report computed
    sessions,          \* ids of the rows of table sessions
    response,          \* the last response of an analytics call
    rate_limit_store,       \* password_reset: identifier -> accepted request times
    verification_attempts,  \* password_reset: identifier -> accepted attempt times
    password_reset_tokens,  \* rows of table password_reset_tokens, by email
    users,                  \* rows of table users: email -> password hash
    accepted_calls,         \* history: per dictionary and key, the calls accepted
    otp_comparisons         \* history: per email, the times an OTP was compared

passwordResetVars == << rate_limit_store, verification_attempts,
                        password_reset_tokens, users, accepted_calls,
                        otp_comparisons >>

vars == << now, task_completions, athlete_skills, conn, report, sessions, response,
           rate_limit_store, verification_attempts, password_reset_tokens, users,
           accepted_calls, otp_comparisons >>


\* --------------------------------------------------- the completion query
\* Rows a statement run on connection c sees (READ COMMITTED): the committed
\* rows and the rows c itself has flushed.
Visible(rows, c) == {r \in rows : r.tx = 0 \/ r.tx = c}

\* ORDER BY completed_at ASC (PostgreSQL: NULLs sort last): r may come first
\* among rows when no row of rows sorts strictly before it.
SortsFirst(r, rows) ==
    \A x \in rows :
        \/ x.completed_at = None
        \/ r.completed_at # None /\ r.completed_at <= x.completed_at

\* Every list of rows in that order; rows with equal completed_at come in an
\* unspecified order.
RECURSIVE OrderByCompletedAt(_)
OrderByCompletedAt(rows) ==
    IF rows = {} THEN {<< >>}
    ELSE UNION {{<< r >> \o q : q \in OrderByCompletedAt(rows \ {r})} :
                    r \in {x \in rows : SortsFirst(x, rows)}}

\* Every list of the rows of a set: what a query without ORDER BY may return.
RECURSIVE AnyOrder(_)
AnyOrder(rows) ==
    IF rows = {} THEN {<< >>}
    ELSE UNION {{<< r >> \o q : q \in AnyOrder(rows \ {r})} : r \in rows}

\* A bug: the completion query has no ORDER BY.
CompletionQuery_Unordered(rows, athlete_id) ==
    AnyOrder({r \in rows : r.athlete_id = athlete_id})

\* Every result list the query of calculate_ema_skill_scores may return for
\* one athlete.
CompletionQuery(rows, athlete_id) ==
    OrderByCompletedAt({r \in rows : r.athlete_id = athlete_id})

\* ------------------------------------------------------ the EMA calculator
EMA_ALPHA == Rat(3, 10)

\* str(skill_id), the key scores_breakdown is looked up with.
SkillKey(skill_id) == ToString(skill_id)

\* A payload's scores (dict[int, float]) as stored in and read back from the
\* JSONB column: keys become strings, the numbers a client wrote as integers
\* are floats.
ToJsonb(scores) ==
    [k \in {ToString(i) : i \in DOMAIN scores} |->
        Rat(scores[CHOOSE i \in DOMAIN scores : ToString(i) = k], 1)]

IndexOfSession(data, session_id) ==
    IF \E i \in 1..Len(data) : data[i].session_id = session_id
    THEN CHOOSE i \in 1..Len(data) : data[i].session_id = session_id
    ELSE 0

\* A bug: completions without completed_at are grouped like the others.
RECURSIVE GroupBySession_KeepNull(_, _)
GroupBySession_KeepNull(all_completions, sessions_data) ==
    IF all_completions = << >> THEN sessions_data
    ELSE
        LET comp == Head(all_completions)
            i == IndexOfSession(sessions_data, comp.session_id)
        IN  IF i = 0
            THEN GroupBySession_KeepNull(Tail(all_completions),
                     Append(sessions_data,
                            [session_id |-> comp.session_id,
                             completions |-> << comp >>,
                             timestamp |-> comp.completed_at]))
            ELSE GroupBySession_KeepNull(Tail(all_completions),
                     [sessions_data EXCEPT ![i].completions = Append(@, comp)])

\* sessions_data, a dict in insertion order: each session's completions and
\* the completed_at of the first completion met for it.
RECURSIVE GroupBySession(_, _)
GroupBySession(all_completions, sessions_data) ==
    IF all_completions = << >> THEN sessions_data
    ELSE
        LET comp == Head(all_completions)
            i == IndexOfSession(sessions_data, comp.session_id)
        IN  IF comp.completed_at = None
            THEN GroupBySession(Tail(all_completions), sessions_data)
            ELSE IF i = 0
            THEN GroupBySession(Tail(all_completions),
                     Append(sessions_data,
                            [session_id |-> comp.session_id,
                             completions |-> << comp >>,
                             timestamp |-> comp.completed_at]))
            ELSE GroupBySession(Tail(all_completions),
                     [sessions_data EXCEPT ![i].completions = Append(@, comp)])

\* One step of sorted(): e goes after every element whose key is <= its own.
InsertByTimestamp(sorted, e) ==
    LET before == {i \in 1..Len(sorted) : sorted[i].timestamp <= e.timestamp}
        k == Cardinality(before)
    IN  SubSeq(sorted, 1, k) \o << e >> \o SubSeq(sorted, k + 1, Len(sorted))

\* sorted(sessions_data.items(), key=timestamp): stable, ascending.
RECURSIVE SortSessions(_)
SortSessions(sessions_data) ==
    IF sessions_data = << >> THEN << >>
    ELSE InsertByTimestamp(SortSessions(SubSeq(sessions_data, 1, Len(sessions_data) - 1)),
                           sessions_data[Len(sessions_data)])

\* A bug: every score counts once, whatever its weight.
Accumulate_Unweighted(data, score, weight) ==
    [total_weighted_score |-> RatAdd(data.total_weighted_score, score),
     total_weight |-> RatAdd(data.total_weight, Rat(1, 1))]

\* total_weighted_score += score * weight; total_weight += weight
Accumulate(data, score, weight) ==
    [total_weighted_score |-> RatAdd(data.total_weighted_score, RatMul(score, weight)),
     total_weight |-> RatAdd(data.total_weight, weight)]

\* The inner loop over comp.task.skill_weights for one completion.
RECURSIVE AddSkillWeights(_, _, _)
AddSkillWeights(skill_weights, comp, avg_data) ==
    IF skill_weights = << >> THEN avg_data
    ELSE
        LET sw == Head(skill_weights)
            rest == Tail(skill_weights)
        IN  IF SkillKey(sw.skill_id) \in DOMAIN comp.scores_breakdown
            THEN
                LET score == comp.scores_breakdown[SkillKey(sw.skill_id)]
                    weight == DecimalToFloat(sw.weight)
                    old == IF sw.skill_id \in DOMAIN avg_data
                           THEN avg_data[sw.skill_id]
                           ELSE [total_weighted_score |-> RatZero, total_weight |-> RatZero]
                    new == Accumulate(old, score, weight)
                IN  AddSkillWeights(rest, comp,
                        [k \in DOMAIN avg_data \cup {sw.skill_id} |->
                            IF k = sw.skill_id THEN new ELSE avg_data[k]])
            ELSE AddSkillWeights(rest, comp, avg_data)

\* session_skill_avg_data of one session: the loop over its completions.
RECURSIVE SessionSkillAvgData(_, _)
SessionSkillAvgData(completions, avg_data) ==
    IF completions = << >> THEN avg_data
    ELSE
        LET comp == Head(completions)
        IN  IF comp.task_id \notin DOMAIN TaskSkillWeight \/ DOMAIN comp.scores_breakdown = {}
            THEN SessionSkillAvgData(Tail(completions), avg_data)
            ELSE SessionSkillAvgData(Tail(completions),
                     AddSkillWeights(TaskSkillWeight[comp.task_id], comp, avg_data))

\* A bug: alpha weighs the old state instead of the new value.
EmaBlend_Swapped(session_avg, old_ema) ==
    RatAdd(RatMul(old_ema, EMA_ALPHA),
           RatMul(session_avg, RatAdd(Rat(1, 1), Rat(0 - EMA_ALPHA.num, EMA_ALPHA.den))))

\* A bug: the old state is not scaled down.
EmaBlend_NoDecay(session_avg, old_ema) ==
    RatAdd(RatMul(session_avg, EMA_ALPHA), old_ema)

\* new_ema = session_avg * alpha + old_ema * (1 - alpha)
EmaBlend(session_avg, old_ema) ==
    RatAdd(RatMul(session_avg, EMA_ALPHA),
           RatMul(old_ema, RatAdd(Rat(1, 1), Rat(0 - EMA_ALPHA.num, EMA_ALPHA.den))))

\* A bug: the weighted sum is not divided by the total weight.
SessionAvg_NoDivide(data) == data.total_weighted_score

\* session_avg = total_weighted_score / total_weight
SessionAvg(data) == RatDiv(data.total_weighted_score, data.total_weight)

\* A bug: a skill the session gives no value is blended toward 0.
UpdateEma_TowardZero(current_ema_scores, avg_data) ==
    LET touched == {k \in DOMAIN avg_data : avg_data[k].total_weight.num > 0}
    IN  [k \in DOMAIN current_ema_scores \cup touched |->
            IF k \notin touched THEN EmaBlend(RatZero, current_ema_scores[k])
            ELSE IF k \notin DOMAIN current_ema_scores THEN SessionAvg(avg_data[k])
            ELSE EmaBlend(SessionAvg(avg_data[k]), current_ema_scores[k])]

\* "Update EMA for this session": every skill with total_weight > 0; the
\* first value of a skill initialises its state.
UpdateEma(current_ema_scores, avg_data) ==
    LET touched == {k \in DOMAIN avg_data : avg_data[k].total_weight.num > 0}
    IN  [k \in DOMAIN current_ema_scores \cup touched |->
            IF k \notin touched THEN current_ema_scores[k]
            ELSE IF k \notin DOMAIN current_ema_scores THEN SessionAvg(avg_data[k])
            ELSE EmaBlend(SessionAvg(avg_data[k]), current_ema_scores[k])]

\* A bug: the excluded session is folded like any other.
SkipSession_Never(session_id, exclude_session_id) == FALSE

\* if exclude_session_id and session_id == exclude_session_id: continue
SkipSession(session_id, exclude_session_id) ==
    exclude_session_id # None /\ session_id = exclude_session_id

\* "Process sessions chronologically".
RECURSIVE FoldSessions(_, _, _)
FoldSessions(sorted_sessions, exclude_session_id, current_ema_scores) ==
    IF sorted_sessions = << >> THEN current_ema_scores
    ELSE
        LET s == Head(sorted_sessions)
        IN  IF SkipSession(s.session_id, exclude_session_id)
            THEN FoldSessions(Tail(sorted_sessions), exclude_session_id, current_ema_scores)
            ELSE FoldSessions(Tail(sorted_sessions), exclude_session_id,
                     UpdateEma(current_ema_scores, SessionSkillAvgData(s.completions, << >>)))

\* calculate_ema_skill_scores, given the list its query returned.
calculate_ema_skill_scores(all_completions, exclude_session_id) ==
    LET current_ema_scores ==
            FoldSessions(SortSessions(GroupBySession(all_completions, << >>)),
                         exclude_session_id, << >>)
    IN  [k \in DOMAIN current_ema_scores |-> Round2(current_ema_scores[k])]


\* ------------------------------------------------ the athlete_skills upsert
SameKey(r, v) == r.athlete_id = v.athlete_id /\ r.skill_id = v.skill_id

\* The value a Numeric(5, 2) column keeps of a float: hundredths.
ToNumeric(x) == RoundHundredths(x)

\* upsert_values of update_athlete_skill_scores.
UpsertValues(athlete_id, current_ema_scores) ==
    {[athlete_id |-> athlete_id,
      skill_id |-> k,
      current_score |-> ToNumeric(Round2(current_ema_scores[k]))] : k \in DOMAIN current_ema_scores}

\* A bug: ON CONFLICT DO NOTHING, the existing row keeps its score.
OnConflictDoUpdate_DoNothing(table, v) ==
    IF \E r \in table : SameKey(r, v) THEN table ELSE table \cup {v}

\* A bug: a plain INSERT, no conflict clause.
OnConflictDoUpdate_Insert(table, v) == table \cup {v}

\* INSERT one row ... ON CONFLICT (athlete_id, skill_id) DO UPDATE
\*   SET current_score = excluded.current_score
OnConflictDoUpdate(table, v) ==
    IF \E r \in table : SameKey(r, v)
    THEN {IF SameKey(r, v) THEN [r EXCEPT !.current_score = v.current_score] ELSE r : r \in table}
    ELSE table \cup {v}

\* The multi-row statement: every row of values in turn.
RECURSIVE Upsert(_, _)
Upsert(table, values) ==
    IF values = {} THEN table
    ELSE LET v == CHOOSE x \in values : TRUE
         IN  Upsert(OnConflictDoUpdate(table, v), values \ {v})

\* A bug: an empty map is written as a score of 0 for every skill.
update_athlete_skill_scores_ZeroFill(table, athlete_id, all_completions) ==
    LET current_ema_scores == calculate_ema_skill_scores(all_completions, None)
    IN  Upsert(table, UpsertValues(athlete_id,
                   IF DOMAIN current_ema_scores = {}
                   THEN [k \in SkillIds |-> RatZero] ELSE current_ema_scores))

\* A bug: the athlete's rows are replaced by the rows of the new map.
update_athlete_skill_scores_Replace(table, athlete_id, all_completions) ==
    LET current_ema_scores == calculate_ema_skill_scores(all_completions, None)
    IN  {r \in table : r.athlete_id # athlete_id}
            \cup UpsertValues(athlete_id, current_ema_scores)

\* update_athlete_skill_scores, given the list the calculator's query returned:
\* the athlete_skills table after it.
update_athlete_skill_scores(table, athlete_id, all_completions) ==
    LET current_ema_scores == calculate_ema_skill_scores(all_completions, None)
    IN  IF DOMAIN current_ema_scores = {} THEN table
        ELSE Upsert(table, UpsertValues(athlete_id, current_ema_scores))

\* SELECT current_score of one (athlete, skill), as the float the ORM hands out.
ReadSkillScores(table, athlete_id, skill_id) ==
    {DecimalToFloat(r.current_score) :
        r \in {x \in table : x.athlete_id = athlete_id /\ x.skill_id = skill_id}}

\* ------------------------------------------------------------- requests
\* TaskCompletionCreate bodies a client sends (athlete, task, per-skill scores).
CompletionInputs ==
    [ A |-> [athlete_id |-> 1, task_id |-> 1, score |-> 80, scores |-> (1 :> 80 @@ 2 :> 70)],
      B |-> [athlete_id |-> 1, task_id |-> 2, score |-> 75, scores |-> (1 :> 90 @@ 2 :> 60)],
      C |-> [athlete_id |-> 1, task_id |-> 1, score |-> 100, scores |-> (1 :> 100)],
      E |-> [athlete_id |-> 1, task_id |-> 1, score |-> 0, scores |-> << >>],
      G |-> [athlete_id |-> 2, task_id |-> 1, score |-> 80, scores |-> (1 :> 80)] ]

\* Bodies sent before the analytics calls: three athletes of user 1; event X
\* scores two skills, Z scores a skill of zero weight, N scores nothing.
AnalyticsInputs ==
    [ U |-> [athlete_id |-> 1, task_id |-> 1, score |-> 75, scores |-> (1 :> 95)],
      V |-> [athlete_id |-> 2, task_id |-> 1, score |-> 90, scores |-> (1 :> 85)],
      W |-> [athlete_id |-> 3, task_id |-> 1, score |-> 60, scores |-> (1 :> 75)],
      X |-> [athlete_id |-> 1, task_id |-> 2, score |-> 90, scores |-> (1 :> 90 @@ 2 :> 60)],
      Z |-> [athlete_id |-> 1, task_id |-> 3, score |-> 50, scores |-> (1 :> 40)],
      N |-> [athlete_id |-> 1, task_id |-> 1, score |-> 0, scores |-> << >>] ]

\* SessionCompletionPayload.completions: one completion, or two of one session.
Payloads ==
    LET in == CompletionInputs
    IN  { << in.A >>, << in.B >>, << in.C >>,
          << in.A, in.B >>, << in.E, in.G >> }

\* The next value of the id sequence; nothing reads a row's id, and the id of
\* a deleted last row is handed out again.
NextId(rows) ==
    IF rows = {} THEN 1
    ELSE 1 + CHOOSE m \in {r.id : r \in rows} : \A r \in rows : r.id <= m

\* db_completions of save_task_completions, as flushed on connection tx.
NewCompletions(session_id, payload, completion_time, tx, rows) ==
    {[id |-> NextId(rows) + i - 1,
      session_id |-> session_id,
      athlete_id |-> payload[i].athlete_id,
      task_id |-> payload[i].task_id,
      final_score |-> ToNumeric(Rat(payload[i].score, 1)),
      scores_breakdown |-> ToJsonb(payload[i].scores),
      completed_at |-> completion_time,
      tx |-> tx] : i \in 1..Len(payload)}

ParticipatingAthleteIds(payload) == {payload[i].athlete_id : i \in 1..Len(payload)}

\* One result list of the calculator's query per athlete of a set.
QueryChoices(rows, athletes) ==
    {f \in [athletes -> UNION {CompletionQuery(rows, a) : a \in athletes}] :
        \A a \in athletes : f[a] \in CompletionQuery(rows, a)}

\* for athlete_id in participating_athlete_ids: update_athlete_skill_scores(...)
RECURSIVE UpdateAll(_, _, _)
UpdateAll(table, athletes, queried) ==
    IF athletes = {} THEN table
    ELSE LET a == CHOOSE x \in athletes : TRUE
         IN  UpdateAll(update_athlete_skill_scores(table, a, queried[a]), athletes \ {a}, queried)

NoReport == [session_id |-> None, skill_comparison_data |-> << >>]

NoResponse == [op |-> "none"]

Idle == [pc |-> "idle", todo |-> {}, athlete_id |-> None, scores |-> << >>, written |-> {}]

\* ------------------------------------------------------ the password reset
\* src/password_reset: the two module-level rate-limit dictionaries, the
\* table password_reset_tokens and the users the tokens are issued for.
\* The limiter's windows are minutes: the password-reset specifications read
\* one tick of the clock as MinutesPerTick minutes.
MinutesPerTick == 5

timedelta(minutes) == minutes \div MinutesPerTick

MAX_REQUESTS_PER_HOUR == 5

MAX_VERIFICATION_ATTEMPTS == 5

RATE_LIMIT_WINDOW_MINUTES == 60

VERIFICATION_WINDOW_MINUTES == 15

OTP_EXPIRE_MINUTES == 10

\* The address requests are made for (it has an account), the addresses
\* they come from, and the values of OTPs and passwords.
Emails == {"ann@x.io"}

ClientIps == {"10.0.0.1", "10.0.0.2"}

Otps == {"000001", "000002"}

Passwords == {"pw1", "pw2"}

\* bcrypt: a hash verifies the password it was made from and no other.
hash_password(password) == << "bcrypt", password >>

verify_password(plain_password, hashed_password) ==
    hashed_password = hash_password(plain_password)

\* The keys of the dictionaries, as the tuples of the parts of the strings:
\* email, f"ip:{client_ip}", f"verify:{email}:{client_ip}", and the key a
\* direct call of check_rate_limit is given.
Identifiers ==
    {<< e >> : e \in Emails}
        \cup {<< "ip", ip >> : ip \in ClientIps}
        \cup {<< "verify", e, ip >> : e \in Emails, ip \in ClientIps}

\* A defaultdict(list): a key that is absent reads as the empty list.
EmptyStore == [identifier \in Identifiers |-> << >>]

InitPasswordReset ==
    /\ rate_limit_store = EmptyStore
    /\ verification_attempts = EmptyStore
    /\ password_reset_tokens = [e \in Emails |-> << >>]
    /\ users = [e \in Emails |-> hash_password("pw1")]
    /\ accepted_calls = [rate_limit_store |-> EmptyStore,
                         verification_attempts |-> EmptyStore]
    /\ otp_comparisons = [e \in Emails |-> << >>]

Init ==
    /\ now = 1
    /\ task_completions = {}
    /\ athlete_skills = {}
    /\ conn = [c \in {1, 2} |-> Idle]
    /\ report = NoReport
    /\ sessions = SessionIds
    /\ response = NoResponse
    /\ InitPasswordReset

\* save_task_completions, run alone: flush, recompute every participating
\* athlete's scores, commit.  A request that starts after this one has
\* returned reads a later clock.  The session and the athletes exist (the
\* 404 and 400 exits change nothing); total_session_time_seconds and
\* session_attendees.was_present are written too and read by nothing here.
SaveTaskCompletions(session_id, payload) ==
    /\ \A c \in DOMAIN conn : conn[c] = Idle
    /\ session_id \in sessions
    /\ Cardinality(task_completions) + Len(payload) <= MaxCompletions
    /\ LET rows == task_completions
                   \cup NewCompletions(session_id, payload, now, 0, task_completions)
           athletes == ParticipatingAthleteIds(payload)
       IN  /\ task_completions' = rows
           /\ \E queried \in QueryChoices(rows, athletes) :
                  athlete_skills' = UpdateAll(athlete_skills, athletes, queried)
    /\ now' = now + 1
    /\ report' = NoReport
    /\ response' = NoResponse
    /\ UNCHANGED << conn, sessions >>
    /\ UNCHANGED passwordResetVars

\* POST /{athlete_uuid}/recalculate-skills
RecalculateSkills(athlete_id) ==
    /\ \A c \in DOMAIN conn : conn[c] = Idle
    /\ \E q \in CompletionQuery(Visible(task_completions, 0), athlete_id) :
           athlete_skills' = update_athlete_skill_scores(athlete_skills, athlete_id, q)
    /\ report' = NoReport
    /\ response' = NoResponse
    /\ UNCHANGED << now, task_completions, conn, sessions >>
    /\ UNCHANGED passwordResetVars

\* A bug: the calculator persists the map it computed.
GetSessionReport_Persisting(session_id) ==
    /\ \A c \in DOMAIN conn : conn[c] = Idle
    /\ LET rows == Visible(task_completions, 0)
           athletes == {r.athlete_id : r \in {x \in rows : x.session_id = session_id}}
       IN  /\ athletes # {}
           /\ \E qb, qa \in QueryChoices(rows, athletes) :
                  /\ report' = [session_id |-> session_id,
                                skill_comparison_data |->
                                    [a \in athletes |->
                                        [before |-> calculate_ema_skill_scores(qb[a], session_id),
                                         after |-> calculate_ema_skill_scores(qa[a], None)]]]
                  /\ athlete_skills' =
                         UNION {UpsertValues(a, calculate_ema_skill_scores(qb[a], session_id)) :
                                    a \in athletes}
    /\ UNCHANGED << now, task_completions, conn, sessions, response >>
    /\ UNCHANGED passwordResetVars

\* get_session_report_data: before/after scores of every athlete with a
\* completion in the session.  For a session without completions the
\* calculator is not called.
GetSessionReport(session_id) ==
    /\ \A c \in DOMAIN conn : conn[c] = Idle
    /\ LET rows == Visible(task_completions, 0)
           athletes == {r.athlete_id : r \in {x \in rows : x.session_id = session_id}}
       IN  /\ athletes # {}
           /\ \E qb, qa \in QueryChoices(rows, athletes) :
                  report' = [session_id |-> session_id,
                             skill_comparison_data |->
                                 [a \in athletes |->
                                     [before |-> calculate_ema_skill_scores(qb[a], session_id),
                                      after |-> calculate_ema_skill_scores(qa[a], None)]]]
    /\ UNCHANGED << now, task_completions, athlete_skills, conn, sessions, response >>
    /\ UNCHANGED passwordResetVars

Next ==
    \/ \E s \in SessionIds, p \in Payloads : SaveTaskCompletions(s, p)
    \/ \E a \in AthleteIds : RecalculateSkills(a)
    \/ \E s \in SessionIds : GetSessionReport(s)

Spec == Init /\ [][Next]_vars


\* ------------------------------------------- requests that run concurrently
\* Each request runs in its own transaction on its own connection (READ
\* COMMITTED).  A flushed row and an upserted row stay invisible to the other
\* connection until COMMIT; an upserted key stays locked until COMMIT.
TxPayloads ==
    LET in == CompletionInputs
    IN  { << in.A >>, << in.C >>, << in.G >> }

\* Two requests may read the same instant; the clock moves on once a reading
\* has been used.
Tick ==
    /\ now < MaxClock
    /\ \E r \in task_completions : r.completed_at = now
    /\ now' = now + 1
    /\ UNCHANGED << task_completions, athlete_skills, conn, report, sessions, response >>
    /\ UNCHANGED passwordResetVars

\* save_task_completions up to "await db.flush()".
TxFlush(c, session_id, payload) ==
    /\ conn[c].pc = "idle"
    /\ session_id \in sessions
    /\ Cardinality(task_completions) + Len(payload) <= MaxTxCompletions
    /\ task_completions' = task_completions
           \cup NewCompletions(session_id, payload, now, c, task_completions)
    /\ conn' = [conn EXCEPT ![c] = [Idle EXCEPT !.pc = "flushed",
                                                !.todo = ParticipatingAthleteIds(payload)]]
    /\ UNCHANGED << now, athlete_skills, report, sessions, response >>
    /\ UNCHANGED passwordResetVars

\* update_athlete_skill_scores up to its upsert, for the next participating
\* athlete: the calculator's SELECT; an empty map returns at once.
TxCalculate(c) ==
    /\ conn[c].pc \in {"flushed", "upserted"}
    /\ \E a \in conn[c].todo :
       \E q \in CompletionQuery(Visible(task_completions, c), a) :
           LET current_ema_scores == calculate_ema_skill_scores(q, None)
           IN  conn' = [conn EXCEPT ![c] =
                   IF DOMAIN current_ema_scores = {}
                   THEN [@ EXCEPT !.pc = "flushed", !.todo = @ \ {a},
                                  !.athlete_id = None, !.scores = << >>]
                   ELSE [@ EXCEPT !.pc = "calculated", !.todo = @ \ {a},
                                  !.athlete_id = a, !.scores = current_ema_scores]]
    /\ UNCHANGED << now, task_completions, athlete_skills, report, sessions, response >>
    /\ UNCHANGED passwordResetVars

\* The INSERT ... ON CONFLICT DO UPDATE statement.  It waits while another
\* transaction holds an uncommitted write of one of its keys; its rows are
\* taken in one step.
TxUpsert(c) ==
    /\ conn[c].pc = "calculated"
    /\ LET values == UpsertValues(conn[c].athlete_id, conn[c].scores)
       IN  /\ \A d \in DOMAIN conn \ {c} :
                  \A v \in values, w \in conn[d].written : ~SameKey(w, v)
           /\ conn' = [conn EXCEPT ![c].pc = "upserted",
                                   ![c].written = Upsert(@, values)]
    /\ UNCHANGED << now, task_completions, athlete_skills, report, sessions, response >>
    /\ UNCHANGED passwordResetVars

\* "await db.commit()": the flushed rows and the upserted rows become visible.
TxCommit(c) ==
    /\ conn[c].pc \in {"flushed", "upserted"}
    /\ conn[c].todo = {}
    /\ task_completions' = {IF r.tx = c THEN [r EXCEPT !.tx = 0] ELSE r : r \in task_completions}
    /\ athlete_skills' = Upsert(athlete_skills, conn[c].written)
    /\ conn' = [conn EXCEPT ![c] = Idle]
    /\ UNCHANGED << now, report, sessions, response >>
    /\ UNCHANGED passwordResetVars

NextTx ==
    \/ Tick
    \/ \E c \in DOMAIN conn, s \in SessionIds, p \in TxPayloads : TxFlush(c, s, p)
    \/ \E c \in DOMAIN conn : TxCalculate(c)
    \/ \E c \in DOMAIN conn : TxUpsert(c)
    \/ \E c \in DOMAIN conn : TxCommit(c)

SpecTx == Init /\ [][NextTx]_vars

\* ------------------------------------------------- the calculator alone
\* Rows the columns of task_completions admit: completed_at and
\* scores_breakdown are nullable, task_id is a non-null foreign key.  Rows 2,
\* 3 and 6 are of one session at one time; row 2 has no score for skill 1,
\* row 3 scores it under a weight of 0.00, row 6 has no scores; rows 5 and 7
\* have no completed_at; row 8 was sent with the score 80.006.
HistoryRows ==
    LET Row(id, session_id, athlete_id, task_id, scores, completed_at) ==
            [id |-> id, session_id |-> session_id, athlete_id |-> athlete_id,
             task_id |-> task_id, final_score |-> 5000,
             scores_breakdown |-> ToJsonb(scores),
             completed_at |-> completed_at, tx |-> 0]
    IN  { Row(1, 1, 1, 1, (1 :> 80), 1),
          Row(2, 2, 1, 2, (2 :> 60), 2),
          Row(3, 2, 1, 3, (1 :> 40), 2),
          Row(4, 3, 1, 1, (1 :> 100), 3),
          Row(5, 3, 1, 1, (1 :> 20), None),
          Row(6, 2, 1, 1, << >>, 2),
          Row(7, 1, 2, 1, (1 :> 50), None),
          [Row(8, 1, 1, 1, << >>, 1) EXCEPT
              !.scores_breakdown = (SkillKey(1) :> Rat(80006, 1000))] }

\* A table of at most MaxHistory of these rows, before any call.
InitHistory ==
    /\ now = MaxNow
    /\ task_completions \in {h \in SUBSET HistoryRows : Cardinality(h) <= MaxHistory}
    /\ athlete_skills = {}
    /\ conn = [c \in {1, 2} |-> Idle]
    /\ report = NoReport
    /\ sessions = SessionIds
    /\ response = NoResponse
    /\ InitPasswordReset

\* One call of calculate_ema_skill_scores(db, athlete_id, exclude_session_id).
CalculateEmaSkillScores(athlete_id, exclude_session_id) ==
    /\ \E all_completions \in CompletionQuery(Visible(task_completions, 0), athlete_id) :
          response' = [op |-> "calculate_ema_skill_scores",
                       athlete_id |-> athlete_id,
                       all_completions |-> all_completions,
                       exclude_session_id |-> exclude_session_id,
                       scores |-> calculate_ema_skill_scores(all_completions,
                                                             exclude_session_id)]
    /\ UNCHANGED << now, task_completions, athlete_skills, conn, report, sessions >>
    /\ UNCHANGED passwordResetVars

NextCalculator ==
    \E a \in AthleteIds, e \in {None} \cup SessionIds : CalculateEmaSkillScores(a, e)

SpecCalculator == InitHistory /\ [][NextCalculator]_vars

\* ------------------------------------------------- sessions going away
\* db.delete of sessions: the ORM cascade deletes their completions (and
\* their tasks, which only their own completions refer to).
DeleteSessions(ids) ==
    /\ sessions' = sessions \ ids
    /\ task_completions' = {r \in task_completions : r.session_id \notin ids}

\* delete_session; 404 for a session that is not there or not the user's.
DeleteSession(user_id, session_id) ==
    /\ \A c \in DOMAIN conn : conn[c] = Idle
    /\ session_id \in sessions
    /\ Session[session_id].user_id = user_id
    /\ DeleteSessions({session_id})
    /\ report' = NoReport
    /\ response' = NoResponse
    /\ UNCHANGED << now, athlete_skills, conn >>
    /\ UNCHANGED passwordResetVars

\* delete_course: the course's sessions go with it.  Nothing else of a
\* course is kept here, so deleting a course again changes nothing.
DeleteCourse(user_id, course_id) ==
    /\ \A c \in DOMAIN conn : conn[c] = Idle
    /\ DeleteSessions({s \in sessions : /\ Session[s].course_id = course_id
                                        /\ Session[s].user_id = user_id})
    /\ report' = NoReport
    /\ response' = NoResponse
    /\ UNCHANGED << now, athlete_skills, conn >>
    /\ UNCHANGED passwordResetVars

\* cleanup_pending_sessions, run at the start of get_all_courses_with_details.
\* It selects sessions whose is_template IS NULL.
CleanupPendingSessions ==
    /\ \A c \in DOMAIN conn : conn[c] = Idle
    /\ LET threshold == now - TicksPerDay
           session_ids_to_delete ==
               {s \in sessions : /\ Session[s].status = "Pending"
                                 /\ Session[s].course_id = None
                                 /\ Session[s].is_template = << >>
                                 /\ Session[s].scheduled_date < threshold}
       IN  DeleteSessions(session_ids_to_delete)
    /\ report' = NoReport
    /\ response' = NoResponse
    /\ UNCHANGED << now, athlete_skills, conn >>
    /\ UNCHANGED passwordResetVars

\* Payloads saved before and after deletions: one skill, two skills, another
\* athlete.
LifePayloads ==
    LET in == CompletionInputs
    IN  { << in.A >>, << in.B >>, << in.G >> }

\* Requests that add and remove completions, one at a time.
NextLife ==
    \/ /\ Cardinality(task_completions) < MaxLifeCompletions
       /\ \E s \in SessionIds, p \in LifePayloads : SaveTaskCompletions(s, p)
    \/ \E a \in AthleteIds : RecalculateSkills(a)
    \/ \E u \in UserIds, s \in SessionIds : DeleteSession(u, s)
    \/ \E u \in UserIds, c \in CourseIds : DeleteCourse(u, c)
    \/ CleanupPendingSessions

SpecLife == Init /\ [][NextLife]_vars

\* ------------------------------------------------- the progression report
\* A Python value that may be None: << >> is None, << v >> is v.
Some(v) == << v >>

\* select(Skill).where(Skill.user_id == user_id).order_by(Skill.id)
RECURSIVE OrderById(_)
OrderById(rows) ==
    IF rows = {} THEN << >>
    ELSE LET first == CHOOSE r \in rows : \A x \in rows : r.id <= x.id
         IN  << first >> \o OrderById(rows \ {first})

\* A bug: the dates are in descending order, the latest comes first.
FirstDate_Latest(rows) ==
    LET dates == {CastDate(r.completed_at) : r \in rows}
    IN  IF dates \ {None} = {} THEN None
        ELSE CHOOSE d \in dates \ {None} : \A x \in dates \ {None} : d >= x

\* completion_dates[0]: the first of the distinct dates in ascending order,
\* NULL last.
FirstDate(rows) ==
    LET dates == {CastDate(r.completed_at) : r \in rows}
    IN  IF dates \ {None} = {} THEN None
        ELSE CHOOSE d \in dates \ {None} : \A x \in dates \ {None} : d <= x

\* The inner loop over comp.task.skill_weights of the day-one completions.
RECURSIVE AddDayOneWeights(_, _, _, _)
AddDayOneWeights(skill_weights, comp, all_user_skills, skill_totals) ==
    IF skill_weights = << >> THEN skill_totals
    ELSE
        LET sw == Head(skill_weights)
            rest == Tail(skill_weights)
        IN  IF /\ sw.skill_id \in all_user_skills
               /\ SkillKey(sw.skill_id) \in DOMAIN comp.scores_breakdown
            THEN
                LET score == comp.scores_breakdown[SkillKey(sw.skill_id)]
                    weight == DecimalToFloat(sw.weight)
                    old == IF sw.skill_id \in DOMAIN skill_totals
                           THEN skill_totals[sw.skill_id]
                           ELSE [total_weighted_score |-> RatZero, total_weight |-> RatZero]
                    new == [total_weighted_score |->
                                RatAdd(old.total_weighted_score, RatMul(score, weight)),
                            total_weight |-> RatAdd(old.total_weight, weight)]
                IN  AddDayOneWeights(rest, comp, all_user_skills,
                        [k \in DOMAIN skill_totals \cup {sw.skill_id} |->
                            IF k = sw.skill_id THEN new ELSE skill_totals[k]])
            ELSE AddDayOneWeights(rest, comp, all_user_skills, skill_totals)

\* skill_totals: the loop over day_one_completions.  The query has no ORDER
\* BY; the sums are exact here, so the order of the rows does not show.
RECURSIVE SkillTotals(_, _, _)
SkillTotals(day_one_completions, all_user_skills, skill_totals) ==
    IF day_one_completions = {} THEN skill_totals
    ELSE
        LET comp == CHOOSE r \in day_one_completions : TRUE
            rest == day_one_completions \ {comp}
        IN  IF comp.task_id \notin DOMAIN TaskSkillWeight \/ DOMAIN comp.scores_breakdown = {}
            THEN SkillTotals(rest, all_user_skills, skill_totals)
            ELSE SkillTotals(rest, all_user_skills,
                     AddDayOneWeights(TaskSkillWeight[comp.task_id], comp,
                                      all_user_skills, skill_totals))

\* A bug: the average is taken whatever the total weight.
HasWeight_Always(data) == TRUE

\* if data["total_weight"] > 0
HasWeight(data) == data.total_weight.num > 0

\* day_one_scores_dict: None for every skill of the catalogue, then the
\* rounded average of each skill with a positive total weight.
DayOneScoresDict(all_user_skills, skill_totals) ==
    [k \in all_user_skills |->
        IF k \in DOMAIN skill_totals /\ HasWeight(skill_totals[k])
        THEN Some(Round2(SessionAvg(skill_totals[k])))
        ELSE << >>]

\* A bug: a skill without a day-one score is left out of the list.
DayOneList_SkipNone(skills_list, day_one_scores_dict) ==
    LET listed == SelectSeq(skills_list, LAMBDA sk : day_one_scores_dict[sk.id] # << >>)
    IN  [i \in 1..Len(listed) |->
            [skill_id |-> listed[i].id,
             skill_name |-> listed[i].name,
             average_score |-> day_one_scores_dict[listed[i].id][1]]]

\* day_one_scores: one SkillScore per item of sorted(day_one_scores_dict),
\* "score if score is not None else 0.0".
DayOneList(skills_list, day_one_scores_dict) ==
    [i \in 1..Len(skills_list) |->
        [skill_id |-> skills_list[i].id,
         skill_name |-> skills_list[i].name,
         average_score |-> IF day_one_scores_dict[skills_list[i].id] = << >>
                           THEN RatZero
                           ELSE day_one_scores_dict[skills_list[i].id][1]]]

\* current_scores: athlete_current_scores_map.get(skill_id, 0.0) per skill of
\* sorted(all_user_skills.items()).
CurrentList(skills_list, skill_levels) ==
    [i \in 1..Len(skills_list) |->
        [skill_id |-> skills_list[i].id,
         skill_name |-> skills_list[i].name,
         average_score |->
             IF \E r \in skill_levels : r.skill_id = skills_list[i].id
             THEN DecimalToFloat(
                      (CHOOSE r \in skill_levels : r.skill_id = skills_list[i].id).current_score)
             ELSE RatZero]]

\* get_athlete_skill_progression on the committed tables: the response.  A
\* division by a zero total weight raises ZeroDivisionError (status 500).
get_athlete_skill_progression(user_id, athlete_uuid, rows, table) ==
    LET found == {a \in Athlete : a.uuid = athlete_uuid /\ a.user_id = user_id}
        athlete == CHOOSE a \in found : TRUE
        all_user_skills_list == OrderById({sk \in Skill : sk.user_id = user_id})
        all_user_skills == {sk.id : sk \in {x \in Skill : x.user_id = user_id}}
        mine == {r \in rows : r.athlete_id = athlete.id}
        first_date == FirstDate(mine)
        day_one_completions ==
            IF mine = {} THEN {}
            ELSE {r \in mine : CastDate(r.completed_at) = first_date}
        skill_totals == SkillTotals(day_one_completions, all_user_skills, << >>)
        skill_levels == {r \in table : r.athlete_id = athlete.id}
    IN  IF found = {} THEN [status |-> 404]
        ELSE IF all_user_skills_list = << >>
        THEN [status |-> 200, day_one |-> << >>, current |-> << >>]
        ELSE IF \E k \in DOMAIN skill_totals :
                    HasWeight(skill_totals[k]) /\ skill_totals[k].total_weight.num = 0
        THEN [status |-> 500]
        ELSE [status |-> 200,
              day_one |-> DayOneList(all_user_skills_list,
                                     DayOneScoresDict(all_user_skills, skill_totals)),
              current |-> CurrentList(all_user_skills_list, skill_levels)]

\* GET /{athlete_uuid}/skill-progression (athlete/router.py)
GetAthleteSkillProgression(user_id, athlete_uuid) ==
    /\ \A c \in DOMAIN conn : conn[c] = Idle
    /\ response' = [op |-> "skill_progression",
                    user_id |-> user_id,
                    athlete_uuid |-> athlete_uuid,
                    result |-> get_athlete_skill_progression(
                                   user_id, athlete_uuid,
                                   Visible(task_completions, 0), athlete_skills)]
    /\ report' = NoReport
    /\ UNCHANGED << now, task_completions, athlete_skills, conn, sessions >>
    /\ UNCHANGED passwordResetVars

\* ------------------------------------------------------- the leaderboard
RatSub(x, y) == RatAdd(x, Rat(0 - y.num, y.den))
RatLess(x, y) == x.num * y.den < y.num * x.den

RECURSIVE RatSum(_)
RatSum(xs) == IF xs = << >> THEN RatZero ELSE RatAdd(Head(xs), RatSum(Tail(xs)))

\* np.mean of a non-empty list of floats.
Mean(xs) == RatDiv(RatSum(xs), Rat(Len(xs), 1))

\* The values of a column over a set of rows, as a list.
RECURSIVE ColumnFloats(_, _)
ColumnFloats(rows, col) ==
    IF rows = {} THEN << >>
    ELSE LET r == CHOOSE x \in rows : TRUE
         IN  << DecimalToFloat(r[col]) >> \o ColumnFloats(rows \ {r}, col)

\* _calculate_day_one_average_score
calculate_day_one_average_score(athlete_id, rows) ==
    LET mine == {r \in rows : r.athlete_id = athlete_id}
        dated == {r \in mine : r.completed_at # None}
        first_date == FirstDate(dated)
        day_one_scores == ColumnFloats({r \in mine : CastDate(r.completed_at) = first_date},
                                       "final_score")
    IN  IF dated = {} THEN RatZero
        ELSE IF day_one_scores = << >> THEN RatZero ELSE Mean(day_one_scores)

\* A bug: completions are grouped by timestamp, not by date.
SlopeDateKey_Timestamp(completed_at) == completed_at

\* comp.completed_at.date(), the key of session_scores
SlopeDateKey(completed_at) == CastDate(completed_at)

\* avg_scores: np.mean(session_scores[date]) for date in sorted(session_scores)
RECURSIVE AvgScores(_, _)
AvgScores(dates, dated) ==
    IF dates = {} THEN << >>
    ELSE LET d == CHOOSE x \in dates : \A y \in dates : x <= y
         IN  << Mean(ColumnFloats({r \in dated : SlopeDateKey(r.completed_at) = d},
                                  "final_score")) >>
             \o AvgScores(dates \ {d}, dated)

\* stats.linregress(np.arange(n), avg_scores).slope: cov(x, y) / var(x).
LinregressSlope(ys) ==
    LET n == Len(ys)
        xmean == Rat(n - 1, 2)
        ymean == Mean(ys)
        ssxm == Mean([i \in 1..n |-> RatMul(RatSub(Rat(i - 1, 1), xmean),
                                            RatSub(Rat(i - 1, 1), xmean))])
        ssxym == Mean([i \in 1..n |-> RatMul(RatSub(Rat(i - 1, 1), xmean),
                                             RatSub(ys[i], ymean))])
    IN  RatDiv(ssxym, ssxm)

\* _calculate_improvement_slope
calculate_improvement_slope(athlete_id, rows) ==
    LET completions == {r \in rows : r.athlete_id = athlete_id}
        dated == {r \in completions : r.completed_at # None}
        dates == {SlopeDateKey(r.completed_at) : r \in dated}
    IN  IF Cardinality(completions) < 2 THEN RatZero
        ELSE IF Cardinality(dates) < 2 THEN RatZero
        ELSE Round2(LinregressSlope(AvgScores(dates, dated)))

\* leaderboard_data: one entry per fetched athlete, in fetch order.
LeaderboardData(all_athletes, rows, table) ==
    [i \in 1..Len(all_athletes) |->
        LET athlete == all_athletes[i]
            current_scores == ColumnFloats({r \in table : r.athlete_id = athlete.id},
                                           "current_score")
            current_avg_score == IF current_scores = << >> THEN RatZero
                                 ELSE Mean(current_scores)
        IN  [uuid |-> athlete.uuid,
             current_score |-> current_avg_score,
             improvement_since_day_one |->
                 RatSub(current_avg_score, calculate_day_one_average_score(athlete.id, rows)),
             improvement_slope |-> calculate_improvement_slope(athlete.id, rows)]]

\* A bug: reverse=True is missing, the lowest score comes first.
InsertByScore_Ascending(sorted, e) ==
    LET before == {i \in 1..Len(sorted) : ~RatLess(e.current_score, sorted[i].current_score)}
        k == Cardinality(before)
    IN  SubSeq(sorted, 1, k) \o << e >> \o SubSeq(sorted, k + 1, Len(sorted))

\* A bug: the ascending sort is reversed, equal keys come out backwards.
InsertByScore_BeforeEqual(sorted, e) ==
    LET before == {i \in 1..Len(sorted) : RatLess(e.current_score, sorted[i].current_score)}
        k == Cardinality(before)
    IN  SubSeq(sorted, 1, k) \o << e >> \o SubSeq(sorted, k + 1, Len(sorted))

\* One step of sorted(..., reverse=True): e goes after every element whose
\* key is >= its own, so equal keys keep their order.
InsertByScore(sorted, e) ==
    LET before == {i \in 1..Len(sorted) : ~RatLess(sorted[i].current_score, e.current_score)}
        k == Cardinality(before)
    IN  SubSeq(sorted, 1, k) \o << e >> \o SubSeq(sorted, k + 1, Len(sorted))

\* sorted(leaderboard_data, key=current_score, reverse=True)
RECURSIVE SortLeaderboard(_)
SortLeaderboard(leaderboard_data) ==
    IF leaderboard_data = << >> THEN << >>
    ELSE InsertByScore(SortLeaderboard(SubSeq(leaderboard_data, 1, Len(leaderboard_data) - 1)),
                       leaderboard_data[Len(leaderboard_data)])

\* final_athletes: rank = i + 1
AddRank(sorted_leaderboard) ==
    [i \in 1..Len(sorted_leaderboard) |->
        [rank |-> i,
         uuid |-> sorted_leaderboard[i].uuid,
         current_score |-> sorted_leaderboard[i].current_score,
         improvement_since_day_one |-> sorted_leaderboard[i].improvement_since_day_one,
         improvement_slope |-> sorted_leaderboard[i].improvement_slope]]

\* The athletes query of get_leaderboard_data: no ORDER BY.
ActiveAthletes(user_id) ==
    AnyOrder({a \in Athlete : a.user_id = user_id /\ a.is_active})

\* get_leaderboard_data, given the list its athletes query returned.
get_leaderboard_data(all_athletes, rows, table) ==
    AddRank(SortLeaderboard(LeaderboardData(all_athletes, rows, table)))

GetLeaderboardData(user_id) ==
    /\ \A c \in DOMAIN conn : conn[c] = Idle
    /\ \E all_athletes \in ActiveAthletes(user_id) :
           response' = [op |-> "leaderboard",
                        user_id |-> user_id,
                        all_athletes |-> all_athletes,
                        athletes |-> get_leaderboard_data(all_athletes,
                                        Visible(task_completions, 0), athlete_skills)]
    /\ report' = NoReport
    /\ UNCHANGED << now, task_completions, athlete_skills, conn, sessions >>
    /\ UNCHANGED passwordResetVars

\* Time passes between two requests.
Sleep ==
    /\ now < MaxNow
    /\ now' = now + 1
    /\ UNCHANGED << task_completions, athlete_skills, conn, report, sessions, response >>
    /\ UNCHANGED passwordResetVars

\* Saves the analytics calls are made after: a session and its payload.
AnalyticsSaves ==
    LET in == AnalyticsInputs
    IN  { << 1, << in.U, in.V, in.W >> >>, << 1, << in.U >> >>,
          << 2, << in.X >> >>, << 3, << in.Z, in.N >> >> }

NextAnalytics ==
    \/ \E sp \in AnalyticsSaves : SaveTaskCompletions(sp[1], sp[2])
    \/ Sleep
    \/ \E u \in UserIds, a \in AthleteUuids : GetAthleteSkillProgression(u, a)
    \/ \E u \in UserIds : GetLeaderboardData(u)

SpecAnalytics == Init /\ [][NextAnalytics]_vars

\* ---------------------------------------------------- the coach dashboard
\* The functions below read their arguments and nothing else, so every call
\* is the first call of a behaviour.
\* A bug: no growth is reported when the previous count is 0.
ChangeFromZero_Never(current) == RatZero

\* return 100.0 if current > 0 else 0.0
ChangeFromZero(current) == IF current > 0 THEN Rat(100, 1) ELSE RatZero

\* _calculate_change_percent; previous is << >> for None.
calculate_change_percent(current, previous) ==
    IF previous = << >> THEN << >>
    ELSE IF previous[1] = 0 THEN Some(ChangeFromZero(current))
    ELSE Some(Round1(RatMul(Rat(current - previous[1], Abs(previous[1])),
                            Rat(IF previous[1] < 0 THEN -100 ELSE 100, 1))))

\* ComparativeStat(current, previous, change_percent)
ComparativeStat(current, previous) ==
    [current |-> current,
     previous |-> previous,
     change_percent |-> calculate_change_percent(current, previous)]

\* A direct call of _calculate_change_percent.
CalculateChangePercent(current, previous) ==
    /\ response = NoResponse
    /\ response' = [op |-> "change_percent",
                    current |-> current,
                    previous |-> previous,
                    result |-> calculate_change_percent(current, previous)]
    /\ UNCHANGED << now, task_completions, athlete_skills, conn, report, sessions >>
    /\ UNCHANGED passwordResetVars

\* A bug: equal changes count as accelerating.
IsAccelerating_OrEqual(change_recent, change_prior) == change_recent >= change_prior

\* if change_recent > change_prior
IsAccelerating(change_recent, change_prior) == change_recent > change_prior

\* growth_insight of _get_engagement_stats
GrowthInsight(new_athletes_m1, new_athletes_m2, new_athletes_m3) ==
    IF new_athletes_m2 > 0 \/ new_athletes_m3 > 0
    THEN LET change_recent == new_athletes_m1 - new_athletes_m2
             change_prior == new_athletes_m2 - new_athletes_m3
         IN  IF IsAccelerating(change_recent, change_prior)
             THEN [trend_type |-> "accelerating",
                   narrative |-> "Your team's growth rate is picking up steam. Great work!"]
             ELSE IF change_recent < change_prior
             THEN [trend_type |-> "slowing",
                   narrative |->
                       "Growth has slowed recently. A good time to focus on recruitment."]
             ELSE [trend_type |-> "steady",
                   narrative |->
                       "You're maintaining a consistent rate of new athlete sign-ups."]
    ELSE [trend_type |-> "stable",
          narrative |-> "Track athlete sign-ups over time to see trends here."]

\* _get_engagement_stats, given the three monthly counts of new athletes
\* ("or 0" has made a NULL count 0); the roster and the attendance rate are
\* computed apart from them and left out.
GetEngagementStats(new_athletes_m1, new_athletes_m2, new_athletes_m3) ==
    /\ response = NoResponse
    /\ response' = [op |-> "engagement",
                    m1 |-> new_athletes_m1,
                    m2 |-> new_athletes_m2,
                    m3 |-> new_athletes_m3,
                    new_athletes_month |->
                        ComparativeStat(new_athletes_m1, Some(new_athletes_m2)),
                    growth_insight |->
                        GrowthInsight(new_athletes_m1, new_athletes_m2, new_athletes_m3)]
    /\ UNCHANGED << now, task_completions, athlete_skills, conn, report, sessions >>
    /\ UNCHANGED passwordResetVars

\* athletes_improved_percent of _get_skill_and_player_insights
AthletesImprovedPercent(athletes_with_scores, all_athletes) ==
    IF all_athletes > 0 THEN Round1(Rat(100 * athletes_with_scores, all_athletes))
    ELSE RatZero

\* A bug: team growth is looked at before the session count.
generate_motivational_highlight_GrowthFirst(activity, engagement, skill_stats) ==
    LET sessions_change == activity.sessions_conducted_month.change_percent
    IN  IF /\ engagement.growth_insight # << >>
           /\ engagement.growth_insight[1].trend_type = "accelerating"
        THEN [type |-> "TEAM_GROWTH",
              message |-> [text |-> engagement.growth_insight[1].narrative, args |-> << >>],
              icon |-> "mdi:account-multiple-plus"]
        ELSE IF sessions_change # << >> /\ RatLess(Rat(20, 1), sessions_change[1])
        THEN [type |-> "HIGH_IMPACT",
              message |-> [text |-> "Great momentum! You've increased sessions by {}% this month. Keep up the amazing work!",
                           args |-> << sessions_change[1] >>],
              icon |-> "mdi:rocket-launch"]
        ELSE [type |-> "DEFAULT",
              message |-> [text |-> "Here's a summary of your coaching activity and its impact.",
                           args |-> << >>],
              icon |-> "mdi:chart-bar"]

\* _generate_motivational_highlight; message is the text with the values its
\* f-string formats.
generate_motivational_highlight(activity, engagement, skill_stats) ==
    LET sessions_change == activity.sessions_conducted_month.change_percent
        top_skill_name == IF skill_stats.top_trending_skill # << >>
                          THEN skill_stats.top_trending_skill[1]
                          ELSE "key skills"
    IN  IF sessions_change # << >> /\ RatLess(Rat(20, 1), sessions_change[1])
        THEN [type |-> "HIGH_IMPACT",
              message |-> [text |-> "Great momentum! You've increased sessions by {}% this month. Keep up the amazing work!",
                           args |-> << sessions_change[1] >>],
              icon |-> "mdi:rocket-launch"]
        ELSE IF /\ engagement.growth_insight # << >>
                /\ engagement.growth_insight[1].trend_type = "accelerating"
        THEN [type |-> "TEAM_GROWTH",
              message |-> [text |-> engagement.growth_insight[1].narrative, args |-> << >>],
              icon |-> "mdi:account-multiple-plus"]
        ELSE IF /\ activity.sessions_conducted_month.current > 10
                /\ RatLess(Rat(50, 1), skill_stats.athletes_improved_percent)
        THEN [type |-> "SKILL_BOOST",
              message |-> [text |-> "Your focus on {} is paying off, with {}% of athletes showing progress.",
                           args |-> << top_skill_name, skill_stats.athletes_improved_percent >>],
              icon |-> "mdi:trending-up"]
        ELSE [type |-> "DEFAULT",
              message |-> [text |-> "Here's a summary of your coaching activity and its impact.",
                           args |-> << >>],
              icon |-> "mdi:chart-bar"]

\* The growth insights an EngagementStats may carry: none, or one of a trend.
GrowthInsights ==
    {<< >>} \cup {Some(GrowthInsight(m[1], m[2], m[3])) :
                     m \in {<< 0, 0, 0 >>, << 2, 1, 1 >>, << 1, 2, 1 >>, << 1, 1, 1 >>}}

\* The skill statistics: (athletes with scores, athletes) and the top skill.
TeamSkillStats ==
    {[athletes_improved_percent |-> AthletesImprovedPercent(n[1], n[2]),
      top_trending_skill |-> t] :
        n \in {<< 0, 0 >>, << 1, 2 >>, << 2, 3 >>}, t \in {<< >>, Some("Dribbling")}}

\* A direct call of _generate_motivational_highlight.
GenerateMotivationalHighlight(activity, engagement, skill_stats) ==
    /\ response = NoResponse
    /\ response' = [op |-> "highlight",
                    activity |-> activity,
                    engagement |-> engagement,
                    skill_stats |-> skill_stats,
                    result |-> generate_motivational_highlight(activity, engagement,
                                                               skill_stats)]
    /\ UNCHANGED << now, task_completions, athlete_skills, conn, report, sessions >>
    /\ UNCHANGED passwordResetVars

NextDashboard ==
    \/ \E current \in (0 - MaxCount)..MaxCount,
          previous \in {<< >>} \cup {Some(x) : x \in (0 - MaxCount)..MaxCount} :
           CalculateChangePercent(current, previous)
    \/ \E m1, m2, m3 \in 0..MaxNewAthletes : GetEngagementStats(m1, m2, m3)
    \/ \E current \in 0..MaxCount,
          previous \in {<< >>} \cup {Some(x) : x \in 0..MaxCount},
          g \in GrowthInsights, sk \in TeamSkillStats :
           GenerateMotivationalHighlight(
               [sessions_conducted_month |-> ComparativeStat(current, previous)],
               [growth_insight |-> g], sk)

SpecDashboard == Init /\ [][NextDashboard]_vars

\* ------------------------------------------------ the weekly insights
\* date.strftime("%a") of a weekday (date.weekday(): Monday is 0).
DayName(weekday) ==
    << "Mon", "Tue", "Wed", "Thu", "Fri", "Sat", "Sun" >>[(weekday % 7) + 1]

\* format_trend_data: the seven days ending today, oldest first; counts[i] is
\* daily_counts_dict.get(d, 0) of the i-th of them.
format_trend_data(today, counts) ==
    [i \in 1..7 |-> [day_name |-> DayName(today + i), count |-> counts[i]]]

\* elif prev_week_count == 0 and week_count > 0: week_change = 100.0
WeekChangeFromZero(week_count) ==
    IF week_count > 0 THEN Some(Rat(100, 1)) ELSE << >>

\* week_change of calculate_weekly_insights; prev_week_count is << >> for None.
WeekChange(week_count, prev_week_count) ==
    IF prev_week_count # << >> /\ prev_week_count[1] > 0
    THEN Some(Round1(Rat((week_count - prev_week_count[1]) * 100, prev_week_count[1])))
    ELSE IF prev_week_count = Some(0) THEN WeekChangeFromZero(week_count)
    ELSE << >>

\* is_growing of calculate_weekly_insights.
IsGrowing(week_count, prev_week_count) ==
    IF prev_week_count # << >> /\ prev_week_count[1] > 0
    THEN Some(WeekChange(week_count, prev_week_count)[1].num > 0)
    ELSE IF prev_week_count = Some(0) /\ week_count > 0 THEN Some(TRUE)
    ELSE << >>

\* A bug: a later day of the same count replaces the peak.
IsNewPeak_OrEqual(count, max_count) == count >= max_count

\* if item["count"] > max_count
IsNewPeak(count, max_count) == count > max_count

\* The loop over trend_data: (max_count, peak_day) after it.
RECURSIVE PeakLoop(_, _)
PeakLoop(trend_data, acc) ==
    IF trend_data = << >> THEN acc
    ELSE PeakLoop(Tail(trend_data),
                  IF IsNewPeak(Head(trend_data).count, acc.max_count)
                  THEN [max_count |-> Head(trend_data).count,
                        peak_day |-> Some(Head(trend_data).day_name)]
                  ELSE acc)

\* peak_day of calculate_weekly_insights.
PeakDay(trend_data) ==
    LET acc == PeakLoop(trend_data, [max_count |-> 0, peak_day |-> << >>])
    IN  IF acc.max_count = 0 THEN << >> ELSE acc.peak_day

\* calculate_weekly_insights(week_count, prev_week_count, trend_data)
calculate_weekly_insights(week_count, prev_week_count, trend_data) ==
    [week_change |-> WeekChange(week_count, prev_week_count),
     peak_day |-> PeakDay(trend_data),
     avg_daily |-> IF week_count > 0 THEN Round1(Rat(week_count, 7)) ELSE RatZero,
     is_growing |-> IsGrowing(week_count, prev_week_count)]

\* One call of it on the trend format_trend_data builds.
CalculateWeeklyInsights(week_count, prev_week_count, today, counts) ==
    /\ LET trend_detailed == format_trend_data(today, counts)
       IN  response' = [op |-> "calculate_weekly_insights",
                        week_count |-> week_count,
                        prev_week_count |-> prev_week_count,
                        trend_data |-> trend_detailed,
                        insights |-> calculate_weekly_insights(
                                         week_count, prev_week_count, trend_detailed)]
    /\ UNCHANGED << now, task_completions, athlete_skills, conn, report, sessions >>
    /\ UNCHANGED passwordResetVars

\* The function reads its arguments and nothing else: one call a behaviour.
NextInsights ==
    /\ response = NoResponse
    /\ \E week_count \in 0..MaxWeekCount,
          prev_week_count \in {<< >>} \cup {Some(x) : x \in 0..MaxWeekCount},
          today \in 0..6,
          counts \in [1..7 -> 0..MaxDayCount] :
           CalculateWeeklyInsights(week_count, prev_week_count, today, counts)

SpecInsights == Init /\ [][NextInsights]_vars

\* =================================================== the password reset
\* The list comprehension of check_rate_limit: the times after the cutoff.
CleanOldRequests(times, cutoff) ==
    SelectSeq(times, LAMBDA req_time : req_time > cutoff)

\* The test check_rate_limit raises 429 on.
LimitReached_Above(kept, max_requests) == Len(kept) > max_requests

LimitReached(kept, max_requests) == Len(kept) >= max_requests

\* check_rate_limit(identifier, max_requests, window_minutes, store): the
\* status it ends with and the dictionary it leaves.
check_rate_limit(identifier, max_requests, window_minutes, store) ==
    LET cutoff == now - timedelta(window_minutes)
        kept == CleanOldRequests(store[identifier], cutoff)
    IN  IF LimitReached(kept, max_requests)
        THEN [status |-> 429, store |-> [store EXCEPT ![identifier] = kept]]
        ELSE [status |-> 200,
              store |-> [store EXCEPT ![identifier] = Append(kept, now)]]

\* The history of the accepted calls after one call on dictionary name.
Accepted(log, name, identifier, status) ==
    IF status = 200
    THEN [log EXCEPT ![name][identifier] = Append(@, now)]
    ELSE log

\* The limiter called on its own, as its unit tests call it: every call of
\* a behaviour has the same max_requests and window_minutes, and the clock
\* stops at MaxLimiterNow.
MaxRequests == 2

WindowMinutes == 10

MaxLimiterNow == 4

CheckRateLimit(identifier, max_requests, window_minutes) ==
    /\ LET r == check_rate_limit(identifier, max_requests, window_minutes,
                                 rate_limit_store)
       IN  /\ rate_limit_store' = r.store
           /\ accepted_calls' = Accepted(accepted_calls, "rate_limit_store",
                                         identifier, r.status)
           /\ response' = [op |-> "check_rate_limit", identifier |-> identifier,
                           status |-> r.status]
    /\ UNCHANGED << now, task_completions, athlete_skills, conn, report, sessions >>
    /\ UNCHANGED << verification_attempts, password_reset_tokens, users,
                    otp_comparisons >>

NextRateLimit ==
    \/ \E identifier \in {<< "ann@x.io" >>, << "ip", "10.0.0.1" >>} :
          CheckRateLimit(identifier, MaxRequests, WindowMinutes)
    \/ now < MaxLimiterNow /\ Sleep

SpecRateLimit == Init /\ [][NextRateLimit]_vars

\* cleanup_expired_tokens: the rows that stay.
cleanup_expired_tokens(tokens) ==
    [e \in Emails |->
        IF tokens[e] # << >> /\ tokens[e][1].expires_at < now
        THEN << >> ELSE tokens[e]]

\* _get_and_validate_token(email, otp, db): the status it ends with, the
\* table it leaves, and whether it compared the OTP with the stored hash.
get_and_validate_token(email, otp) ==
    LET cleaned == cleanup_expired_tokens(password_reset_tokens)
        stored_token == cleaned[email]
    IN  IF stored_token = << >>
        THEN [status |-> 400, tokens |-> cleaned, compared |-> FALSE]
        ELSE IF now > stored_token[1].expires_at
        THEN [status |-> 400, tokens |-> [cleaned EXCEPT ![email] = << >>],
              compared |-> FALSE]
        ELSE IF ~ verify_password(otp, stored_token[1].otp_hash)
        THEN [status |-> 400, tokens |-> cleaned, compared |-> TRUE]
        ELSE [status |-> 200, tokens |-> cleaned, compared |-> TRUE]

\* The history of the comparisons after one call of it.
Compared(log, email, v) ==
    IF v.compared THEN [log EXCEPT ![email] = Append(@, now)] ELSE log

\* POST /cleanup
CleanupExpiredTokens ==
    /\ password_reset_tokens' = cleanup_expired_tokens(password_reset_tokens)
    /\ response' = [op |-> "cleanup_expired_tokens", status |-> 200]
    /\ UNCHANGED << now, task_completions, athlete_skills, conn, report, sessions >>
    /\ UNCHANGED << rate_limit_store, verification_attempts, users,
                    accepted_calls, otp_comparisons >>

\* POST /request-otp: request_password_reset(email, db, request).  otp is
\* what generate_otp draws, email_sent whether send_email succeeds.
RequestPasswordReset(email, client_ip, otp, email_sent) ==
    LET by_email == check_rate_limit(<< email >>, MAX_REQUESTS_PER_HOUR,
                                     RATE_LIMIT_WINDOW_MINUTES, rate_limit_store)
        by_ip == check_rate_limit(<< "ip", client_ip >>, MAX_REQUESTS_PER_HOUR * 3,
                                  RATE_LIMIT_WINDOW_MINUTES, by_email.store)
        after_email == Accepted(accepted_calls, "rate_limit_store", << email >>,
                                by_email.status)
    IN  /\ IF by_email.status = 429
           THEN /\ rate_limit_store' = by_email.store
                /\ accepted_calls' = after_email
                /\ response' = [op |-> "request_password_reset", status |-> 429]
                /\ UNCHANGED password_reset_tokens
           ELSE /\ rate_limit_store' = by_ip.store
                /\ accepted_calls' = Accepted(after_email, "rate_limit_store",
                                              << "ip", client_ip >>, by_ip.status)
                /\ IF by_ip.status = 429
                   THEN /\ response' = [op |-> "request_password_reset",
                                        status |-> 429]
                        /\ UNCHANGED password_reset_tokens
                   ELSE IF email \notin DOMAIN users
                   THEN /\ response' = [op |-> "request_password_reset",
                                        status |-> 200]
                        /\ UNCHANGED password_reset_tokens
                   ELSE /\ password_reset_tokens' =
                               [password_reset_tokens EXCEPT ![email] =
                                   Some([otp_hash |-> hash_password(otp),
                                         expires_at |->
                                             now + timedelta(OTP_EXPIRE_MINUTES)])]
                        /\ response' = [op |-> "request_password_reset",
                                        status |-> IF email_sent THEN 200 ELSE 500]
        /\ UNCHANGED << now, task_completions, athlete_skills, conn, report, sessions >>
        /\ UNCHANGED << verification_attempts, users, otp_comparisons >>

\* POST /verify-otp: verify_otp(email, otp, db, request).
VerifyOtp(email, otp, client_ip) ==
    LET identifier == << "verify", email, client_ip >>
        r == check_rate_limit(identifier, MAX_VERIFICATION_ATTEMPTS,
                              VERIFICATION_WINDOW_MINUTES, verification_attempts)
        v == get_and_validate_token(email, otp)
    IN  /\ verification_attempts' = r.store
        /\ accepted_calls' = Accepted(accepted_calls, "verification_attempts",
                                      identifier, r.status)
        /\ IF r.status = 429
           THEN /\ response' = [op |-> "verify_otp", status |-> 429]
                /\ UNCHANGED << password_reset_tokens, otp_comparisons >>
           ELSE /\ password_reset_tokens' = v.tokens
                /\ otp_comparisons' = Compared(otp_comparisons, email, v)
                /\ response' = [op |-> "verify_otp", status |-> v.status]
        /\ UNCHANGED << now, task_completions, athlete_skills, conn, report, sessions >>
        /\ UNCHANGED << rate_limit_store, users >>

\* data.email in key, on a key kept as the tuple of its parts.
EmailInKey(email, key) == \E i \in 1..Len(key) : key[i] = email

\* The del loops at the end of reset_password_with_otp.
RemoveKeys(store, email) ==
    [key \in DOMAIN store |-> IF EmailInKey(email, key) THEN << >> ELSE store[key]]

\* POST /confirm: reset_password_with_otp(data, db).
ResetPasswordWithOtp(email, otp, new_password) ==
    LET v == get_and_validate_token(email, otp)
    IN  /\ otp_comparisons' = Compared(otp_comparisons, email, v)
        /\ IF v.status # 200
           THEN /\ password_reset_tokens' = v.tokens
                /\ response' = [op |-> "reset_password_with_otp",
                                status |-> v.status]
                /\ UNCHANGED << users, rate_limit_store, verification_attempts >>
           ELSE IF email \notin DOMAIN users
           THEN /\ password_reset_tokens' = v.tokens
                /\ response' = [op |-> "reset_password_with_otp", status |-> 404]
                /\ UNCHANGED << users, rate_limit_store, verification_attempts >>
           ELSE IF verify_password(new_password, users[email])
           THEN /\ password_reset_tokens' = v.tokens
                /\ response' = [op |-> "reset_password_with_otp", status |-> 400]
                /\ UNCHANGED << users, rate_limit_store, verification_attempts >>
           ELSE /\ users' = [users EXCEPT ![email] = hash_password(new_password)]
                /\ password_reset_tokens' = [v.tokens EXCEPT ![email] = << >>]
                /\ rate_limit_store' = RemoveKeys(rate_limit_store, email)
                /\ verification_attempts' = RemoveKeys(verification_attempts, email)
                /\ response' = [op |-> "reset_password_with_otp", status |-> 200]
        /\ UNCHANGED << now, task_completions, athlete_skills, conn, report, sessions >>
        /\ UNCHANGED accepted_calls

\* The password-reset endpoints, called one after the other, until the
\* histories hold as many calls as the bounds allow.
MaxResetNow == 2

MaxResetRequests == 1

MaxVerifyCalls == 5

MaxComparisons == 6

RECURSIVE TotalLen(_, _)
TotalLen(log, keys) ==
    IF keys = {} THEN 0
    ELSE LET k == CHOOSE x \in keys : TRUE
         IN  Len(log[k]) + TotalLen(log, keys \ {k})

NextReset ==
    \/ /\ TotalLen(accepted_calls.rate_limit_store,
                    {<< e >> : e \in Emails}) < MaxResetRequests
       /\ \E email \in Emails, client_ip \in ClientIps, otp \in Otps,
             email_sent \in BOOLEAN :
             RequestPasswordReset(email, client_ip, otp, email_sent)
    \/ /\ TotalLen(accepted_calls.verification_attempts, Identifiers)
              < MaxVerifyCalls
       /\ TotalLen(otp_comparisons, Emails) < MaxComparisons
       /\ \E email \in Emails, otp \in Otps, client_ip \in ClientIps :
             VerifyOtp(email, otp, client_ip)
    \/ /\ TotalLen(otp_comparisons, Emails) < MaxComparisons
       /\ \E email \in Emails, otp \in Otps, new_password \in Passwords :
             ResetPasswordWithOtp(email, otp, new_password)
    \/ CleanupExpiredTokens
    \/ now < MaxResetNow /\ Sleep

SpecReset == Init /\ [][NextReset]_vars

\* ===================================================== properties: the EMA
\* What the properties are stated with: the history as a set of rows, sums
\* over sets, the recurrence written from its last session backwards.
Committed == Visible(task_completions, 0)

RowsOf(rows, athlete_id) ==
    {r \in rows : r.athlete_id = athlete_id /\ r.completed_at # None}

WeightsOf(task_id, skill_id) ==
    IF task_id \notin DOMAIN TaskSkillWeight THEN {}
    ELSE {TaskSkillWeight[task_id][i].weight :
             i \in {j \in 1..Len(TaskSkillWeight[task_id]) :
                       TaskSkillWeight[task_id][j].skill_id = skill_id}}

\* The rows of a set that carry a (score, weight) pair for a skill.
Scoring(rows, skill_id) ==
    {r \in rows : /\ WeightsOf(r.task_id, skill_id) # {}
                  /\ ToString(skill_id) \in DOMAIN r.scores_breakdown}

TheWeight(r, skill_id) == CHOOSE w \in WeightsOf(r.task_id, skill_id) : TRUE
TheScore(r, skill_id) == r.scores_breakdown[ToString(skill_id)]

RECURSIVE SumScoreWeight(_, _)
SumScoreWeight(rows, skill_id) ==
    IF rows = {} THEN RatZero
    ELSE LET r == CHOOSE x \in rows : TRUE
         IN  RatAdd(RatMul(TheScore(r, skill_id), Rat(TheWeight(r, skill_id), 1)),
                    SumScoreWeight(rows \ {r}, skill_id))

RECURSIVE SumWeight(_, _)
SumWeight(rows, skill_id) ==
    IF rows = {} THEN 0
    ELSE LET r == CHOOSE x \in rows : TRUE
         IN  TheWeight(r, skill_id) + SumWeight(rows \ {r}, skill_id)

\* sum(score * weight) / sum(weight) over the scoring rows of one session.
WeightedAverage(rows, skill_id) ==
    RatDiv(SumScoreWeight(Scoring(rows, skill_id), skill_id),
           Rat(SumWeight(Scoring(rows, skill_id), skill_id), 1))

InSession(rows, session_id) == {r \in rows : r.session_id = session_id}

MinCompletedAt(rows) ==
    CHOOSE t \in {r.completed_at : r \in rows} : \A r \in rows : t <= r.completed_at

SessionsOf(rows) == {r.session_id : r \in rows}

DistinctSessionTimestamps(rows) ==
    \A s1, s2 \in SessionsOf(rows) :
        s1 # s2 => MinCompletedAt(InSession(rows, s1)) # MinCompletedAt(InSession(rows, s2))

\* The sessions in which a skill has a session average.
SessionsScoring(rows, skill_id) == SessionsOf(Scoring(rows, skill_id))

\* state := 0.3 * average + 0.7 * state, the first session setting the state;
\* sessions taken in ascending order of their timestamp.
RECURSIVE EmaOver(_, _, _)
EmaOver(ids, rows, skill_id) ==
    LET last == CHOOSE s \in ids :
                    \A x \in ids :
                        MinCompletedAt(InSession(rows, x)) <= MinCompletedAt(InSession(rows, s))
        avg == WeightedAverage(InSession(rows, last), skill_id)
    IN  IF ids = {last} THEN avg
        ELSE LET state == EmaOver(ids \ {last}, rows, skill_id)
             IN  Rat(3 * avg.num * state.den + 7 * state.num * avg.den,
                     10 * avg.den * state.den)

ExpectedEma(rows) ==
    [k \in {x \in SkillIds : SessionsScoring(rows, x) # {}} |->
        Round2(EmaOver(SessionsScoring(rows, k), rows, k))]

Reported == report.session_id # None
Comparison == report.skill_comparison_data

\* C1: for a history whose sessions have distinct timestamps, the map
\* calculate_ema_skill_scores returns holds, for each skill, the fold of the
\* skill's per-session weighted averages in ascending timestamp order (the
\* first sets the state, each later one blends 0.3/0.7), rounded to 2 decimals.
C1_EmaIsChronologicalFold ==
    Reported =>
        \A a \in DOMAIN Comparison :
            DistinctSessionTimestamps(RowsOf(Committed, a)) =>
                Comparison[a].after = ExpectedEma(RowsOf(Committed, a))

\* Session averages 80, 90, 100 have been folded into 88.1.
C1_Witness ==
    /\ Reported
    /\ 1 \in DOMAIN Comparison
    /\ LET rows == RowsOf(Committed, 1)
       IN  /\ Cardinality(SessionsOf(rows)) = 3
           /\ SessionsScoring(rows, 1) = SessionsOf(rows)
           /\ \E s1, s2, s3 \in SessionsOf(rows) :
                 /\ MinCompletedAt(InSession(rows, s1)) < MinCompletedAt(InSession(rows, s2))
                 /\ MinCompletedAt(InSession(rows, s2)) < MinCompletedAt(InSession(rows, s3))
                 /\ WeightedAverage(InSession(rows, s1), 1) = Rat(80, 1)
                 /\ WeightedAverage(InSession(rows, s2), 1) = Rat(90, 1)
                 /\ WeightedAverage(InSession(rows, s3), 1) = Rat(100, 1)
    /\ Comparison[1].after[1] = Rat(881, 10)


\* C2: calculate_ema_skill_scores(H, exclude_session_id = x) equals
\* calculate_ema_skill_scores of H without the events of session x; a skill
\* scored only in session x is absent from the result.
C2_ExcludeIsRemoval ==
    Reported =>
        \A a \in DOMAIN Comparison :
            \A q \in CompletionQuery(Committed \ InSession(Committed, report.session_id), a) :
                Comparison[a].before = calculate_ema_skill_scores(q, None)

\* A report whose excluded session is the only one scoring some skill, with
\* another skill left from the other sessions.
C2_Witness ==
    /\ Reported
    /\ \E a \in DOMAIN Comparison :
           /\ DOMAIN Comparison[a].before # {}
           /\ DOMAIN Comparison[a].after \ DOMAIN Comparison[a].before # {}
           /\ \E k \in DOMAIN Comparison[a].before :
                  Comparison[a].before[k] # Comparison[a].after[k]

\* C3: each session group carries the minimum completed_at of its events, the
\* groups are folded in ascending order of it, and when distinct sessions
\* have distinct minimum timestamps the result is the same for every order in
\* which the query may return the events.
C3_OrderIndependent ==
    \A a \in AthleteIds :
        LET rows == RowsOf(Committed, a)
        IN  \A q1 \in CompletionQuery(Committed, a) :
                LET groups == SortSessions(GroupBySession(q1, << >>))
                IN  /\ \A i \in 1..Len(groups) :
                           groups[i].timestamp =
                               MinCompletedAt(InSession(rows, groups[i].session_id))
                    /\ \A i, j \in 1..Len(groups) :
                           i < j => groups[i].timestamp <= groups[j].timestamp
                    /\ DistinctSessionTimestamps(rows) =>
                           \A q2 \in CompletionQuery(Committed, a) :
                               \A x \in {None} \cup SessionIds :
                                   calculate_ema_skill_scores(q1, x)
                                       = calculate_ema_skill_scores(q2, x)

\* A reported history of two sessions that the query may return in more than
\* one order.
C3_Witness ==
    /\ Reported
    /\ \E a \in DOMAIN Comparison :
           LET rows == RowsOf(Committed, a)
           IN  /\ Cardinality(CompletionQuery(Committed, a)) > 1
               /\ Cardinality(SessionsOf(rows)) > 1
               /\ DOMAIN Comparison[a].after # {}

\* C7: a call of calculate_ema_skill_scores creates, modifies and deletes no
\* row of task_completions or athlete_skills, and a second call on the
\* unchanged history with the same arguments returns the same maps.
C7_CalculatorIsPure ==
    [][report'.session_id # None =>
          /\ UNCHANGED << task_completions, athlete_skills >>
          /\ report.session_id = report'.session_id => report' = report]_vars

\* A report over a non-empty result, with rows persisted for the athlete.
C7_Witness ==
    /\ Reported
    /\ \E a \in DOMAIN Comparison :
           /\ DOMAIN Comparison[a].after # {}
           /\ DOMAIN Comparison[a].before # {}
           /\ Comparison[a].before # Comparison[a].after
           /\ \E r \in athlete_skills : r.athlete_id = a

\* C8: within one session group, the average fed into the EMA for skill S is
\* sum(score * weight) / sum(weight) over exactly the events of the group
\* whose task has a weight for S and whose scores_breakdown has a score for S.
C8_SessionAverage ==
    \A a \in AthleteIds :
        \A q \in CompletionQuery(Committed, a) :
            LET groups == GroupBySession(q, << >>)
            IN  \A i \in 1..Len(groups) :
                    LET avg_data == SessionSkillAvgData(groups[i].completions, << >>)
                        rows == InSession(RowsOf(Committed, a), groups[i].session_id)
                    IN  /\ DOMAIN avg_data = {k \in SkillIds : Scoring(rows, k) # {}}
                        /\ \A k \in DOMAIN avg_data :
                               SessionAvg(avg_data[k]) = WeightedAverage(rows, k)

\* One session with two scoring events of different weights for a skill,
\* alone in the history, and its average persisted as the skill's score.
C8_Witness ==
    \E a \in AthleteIds, k \in SkillIds :
        LET rows == RowsOf(Committed, a)
        IN  /\ Cardinality(SessionsOf(rows)) = 1
            /\ \E r1, r2 \in Scoring(rows, k) :
                   /\ TheWeight(r1, k) # TheWeight(r2, k)
                   /\ TheScore(r1, k) # TheScore(r2, k)
            /\ ReadSkillScores(athlete_skills, a, k) = {Round2(WeightedAverage(rows, k))}

\* C9: with zero evaluation events the calculator returns the empty map, and
\* a step after which an athlete's computed map is empty writes no
\* athlete_skills row of that athlete.
C9_EmptyMapNoWrite ==
    [][\A a \in AthleteIds :
          /\ RowsOf(Committed', a) = {} =>
                 \A q \in CompletionQuery(Committed', a) :
                     DOMAIN calculate_ema_skill_scores(q, None) = {}
          /\ (\A q \in CompletionQuery(Committed', a) :
                  DOMAIN calculate_ema_skill_scores(q, None) = {})
                 => {r \in athlete_skills' : r.athlete_id = a}
                        = {r \in athlete_skills : r.athlete_id = a}]_vars

\* An athlete whose scores were recomputed over events that score nothing.
C9_Witness ==
    \E a \in AthleteIds :
        /\ RowsOf(Committed, a) # {}
        /\ \A q \in CompletionQuery(Committed, a) :
               DOMAIN calculate_ema_skill_scores(q, None) = {}
        /\ {r \in athlete_skills : r.athlete_id = a} = {}

\* C10: a skill scored in exactly one non-excluded session, by one event with
\* score s and weight w > 0, has the result s rounded to 2 decimals, whatever w.
C10_SingleScoreIsResult ==
    Reported =>
        \A a \in DOMAIN Comparison :
            LET all == RowsOf(Committed, a)
                kept == all \ InSession(all, report.session_id)
            IN  \A k \in SkillIds :
                    /\ Cardinality(Scoring(all, k)) = 1 =>
                           LET r == CHOOSE x \in Scoring(all, k) : TRUE
                           IN  /\ k \in DOMAIN Comparison[a].after
                               /\ Comparison[a].after[k] = Round2(TheScore(r, k))
                    /\ Cardinality(Scoring(kept, k)) = 1 =>
                           LET r == CHOOSE x \in Scoring(kept, k) : TRUE
                           IN  /\ k \in DOMAIN Comparison[a].before
                               /\ Comparison[a].before[k] = Round2(TheScore(r, k))

\* A reported skill scored once, by an event whose weight for it is not 1.
C10_Witness ==
    /\ Reported
    /\ \E a \in DOMAIN Comparison, k \in SkillIds :
           LET all == RowsOf(Committed, a)
           IN  /\ Cardinality(Scoring(all, k)) = 1
               /\ \E r \in Scoring(all, k) :
                      /\ TheWeight(r, k) < 100
                      /\ Comparison[a].after[k] = TheScore(r, k)
               /\ Cardinality(all) > 1


\* ============================================== properties: the upsert
AllIdle == \A c \in DOMAIN conn : conn[c].pc = "idle"

\* athlete_skills as connection c reads it: the committed rows with the
\* connection's own uncommitted upserts applied.
View(c) == Upsert(athlete_skills, conn[c].written)

\* C4: once two concurrent save_task_completions calls for one athlete have
\* both committed, the persisted current_score of every skill of the athlete
\* equals calculate_ema_skill_scores over the full committed history.  (The
\* calls add events of different sessions: every event of the athlete is in a
\* session of its own.)
C4_NoLostUpdate ==
    AllIdle =>
        \A a \in AthleteIds :
            Cardinality(SessionsOf(RowsOf(Committed, a))) = Cardinality(RowsOf(Committed, a)) =>
                \E q \in CompletionQuery(Committed, a) :
                    LET scores == calculate_ema_skill_scores(q, None)
                    IN  \A k \in DOMAIN scores :
                            ReadSkillScores(athlete_skills, a, k) = {scores[k]}

\* C5: after update_athlete_skill_scores(a) has completed with the non-empty
\* map M, reading the record (a, s) of every skill s of M returns M[s].
C5_ReadBackWritten ==
    \A c \in DOMAIN conn :
        conn[c].pc = "upserted" =>
            \A k \in DOMAIN conn[c].scores :
                ReadSkillScores(View(c), conn[c].athlete_id, k) = {conn[c].scores[k]}

\* An update has completed over a row that held another score before.
C5_Witness ==
    \E c \in DOMAIN conn :
        /\ conn[c].pc = "upserted"
        /\ \E k \in DOMAIN conn[c].scores :
               /\ ReadSkillScores(athlete_skills, conn[c].athlete_id, k) # {}
               /\ ReadSkillScores(athlete_skills, conn[c].athlete_id, k)
                      # {conn[c].scores[k]}

AtMostOneRow(table) == \A r1, r2 \in table : SameKey(r1, r2) => r1 = r2

\* C6: there is never more than one athlete_skills row per
\* (athlete_id, skill_id), committed or as a transaction reads it; a commit
\* leaves each key it wrote with exactly the score it wrote, inserting the row
\* when the key was new and overwriting it otherwise.
C6_OneRowPerKey ==
    /\ [](AtMostOneRow(athlete_skills) /\ \A c \in DOMAIN conn : AtMostOneRow(View(c)))
    /\ [][\A c \in DOMAIN conn :
              (conn[c].pc # "idle" /\ conn'[c].pc = "idle") =>
                  /\ \A v \in conn[c].written :
                         ReadSkillScores(athlete_skills', v.athlete_id, v.skill_id)
                             = {DecimalToFloat(v.current_score)}
                  /\ \A r \in athlete_skills :
                         \E x \in athlete_skills' : SameKey(r, x)]_vars

\* A row that was inserted by one transaction and overwritten by a later one.
C6_Witness ==
    /\ AllIdle
    /\ \E r \in athlete_skills :
           LET rows == RowsOf(Committed, r.athlete_id)
           IN  /\ Cardinality(SessionsScoring(rows, r.skill_id)) > 1
               /\ DistinctSessionTimestamps(rows)
               /\ DecimalToFloat(r.current_score) = ExpectedEma(rows)[r.skill_id]

\* ================================== properties: the progression report
Owned(user_id, athlete_uuid) ==
    \E a \in Athlete : a.uuid = athlete_uuid /\ a.user_id = user_id

TheAthleteId(athlete_uuid) == (CHOOSE a \in Athlete : a.uuid = athlete_uuid).id

Catalog(user_id) == {sk \in Skill : sk.user_id = user_id}

\* The events of an athlete on the earliest calendar date with an event.
DayOneRows(rows, athlete_id) ==
    LET mine == RowsOf(rows, athlete_id)
    IN  {r \in mine : \A x \in mine : CastDate(r.completed_at) <= CastDate(x.completed_at)}

Progression == response.op = "skill_progression"

\* C11: for an athlete the requesting user owns, day_one and current each
\* hold exactly one entry per skill of the user's catalogue, in ascending
\* skill_id order, with the same (skill_id, skill_name) at every index; a
\* skill no day-one event scores has day_one score 0.0, a skill without an
\* athlete_skills row has current score 0.0, and an empty catalogue gives two
\* empty lists.
C11_ProgressionListsCatalog ==
    (Progression /\ Owned(response.user_id, response.athlete_uuid)) =>
        LET res == response.result
            catalog == Catalog(response.user_id)
            a == TheAthleteId(response.athlete_uuid)
        IN  /\ res.status = 200
            /\ Len(res.day_one) = Cardinality(catalog)
            /\ Len(res.current) = Cardinality(catalog)
            /\ \A i \in 1..Len(res.day_one) :
                   /\ res.day_one[i].skill_id = res.current[i].skill_id
                   /\ res.day_one[i].skill_name = res.current[i].skill_name
                   /\ \E sk \in catalog : /\ sk.id = res.day_one[i].skill_id
                                          /\ sk.name = res.day_one[i].skill_name
                   /\ Scoring(DayOneRows(Committed, a), res.day_one[i].skill_id) = {}
                          => res.day_one[i].average_score = RatZero
                   /\ ReadSkillScores(athlete_skills, a, res.current[i].skill_id) = {}
                          => res.current[i].average_score = RatZero
            /\ \A i, j \in 1..Len(res.day_one) :
                   i < j => res.day_one[i].skill_id < res.day_one[j].skill_id

\* A report over events of two dates: a skill scored on day one, a skill
\* scored only later (day_one 0.0, current not) and a skill never scored.
C11_Witness ==
    /\ Progression
    /\ Owned(response.user_id, response.athlete_uuid)
    /\ response.result.status = 200
    /\ LET res == response.result
       IN  /\ Len(res.day_one) = 3
           /\ res.day_one[1].average_score # RatZero
           /\ res.day_one[2].average_score = RatZero
           /\ res.current[2].average_score # RatZero
           /\ res.day_one[3].average_score = RatZero
           /\ res.current[3].average_score = RatZero

\* ========================================== properties: the leaderboard
Leaderboard == response.op = "leaderboard"

\* The athletes the leaderboard query fetches for a user.
Fetched(user_id) == {a \in Athlete : a.user_id = user_id /\ a.is_active}

TheAthlete(athlete_uuid) == CHOOSE a \in Athlete : a.uuid = athlete_uuid

RECURSIVE SumOfColumn(_, _)
SumOfColumn(rows, col) ==
    IF rows = {} THEN 0
    ELSE LET r == CHOOSE x \in rows : TRUE
         IN  r[col] + SumOfColumn(rows \ {r}, col)

\* The mean of a column of hundredths over a non-empty set of rows.
MeanOfColumn(rows, col) == Rat(SumOfColumn(rows, col), 100 * Cardinality(rows))

\* The mean of an athlete's persisted skill scores, 0.0 without any.
CurrentScoreOf(athlete_id) ==
    LET mine == {r \in athlete_skills : r.athlete_id = athlete_id}
    IN  IF mine = {} THEN RatZero ELSE MeanOfColumn(mine, "current_score")

\* C12: get_leaderboard_data returns a permutation of the fetched athletes in
\* descending order of current_score, ranked 1..n by position; when the
\* current scores are pairwise distinct the result is the same for every
\* order in which the athletes are fetched.
C12_LeaderboardRanks ==
    Leaderboard =>
        LET L == response.athletes
            F == Fetched(response.user_id)
        IN  /\ Len(L) = Cardinality(F)
            /\ {L[i].uuid : i \in 1..Len(L)} = {a.uuid : a \in F}
            /\ \A i \in 1..Len(L) :
                   /\ L[i].rank = i
                   /\ L[i].current_score = CurrentScoreOf(TheAthlete(L[i].uuid).id)
            /\ \A i, j \in 1..Len(L) :
                   i < j => ~RatLess(L[i].current_score, L[j].current_score)
            /\ (\A a, b \in F : a # b => CurrentScoreOf(a.id) # CurrentScoreOf(b.id)) =>
                   \A all_athletes \in ActiveAthletes(response.user_id) :
                       get_leaderboard_data(all_athletes, Committed, athlete_skills) = L

\* Three athletes scoring 95, 85 and 75 are ranked 1, 2, 3.
C12_Witness ==
    /\ Leaderboard
    /\ Len(response.athletes) = 3
    /\ LET L == response.athletes
       IN  /\ L[1].rank = 1 /\ L[1].current_score = Rat(95, 1)
           /\ L[2].rank = 2 /\ L[2].current_score = Rat(85, 1)
           /\ L[3].rank = 3 /\ L[3].current_score = Rat(75, 1)

\* The calendar dates with a completion of an athlete.
DatesOf(athlete_id) == {CastDate(r.completed_at) : r \in RowsOf(Committed, athlete_id)}

\* The mean final score of an athlete's completions of one date.
DateMean(athlete_id, d) ==
    MeanOfColumn({r \in RowsOf(Committed, athlete_id) : CastDate(r.completed_at) = d},
                 "final_score")

\* The x coordinate of a date: its position, from 0, among the dates.
XOf(d, dates) == Cardinality({e \in dates : e < d})

RECURSIVE SumY(_, _)
SumY(ds, athlete_id) ==
    IF ds = {} THEN RatZero
    ELSE LET d == CHOOSE x \in ds : TRUE
         IN  RatAdd(DateMean(athlete_id, d), SumY(ds \ {d}, athlete_id))

RECURSIVE SumXY(_, _, _)
SumXY(ds, dates, athlete_id) ==
    IF ds = {} THEN RatZero
    ELSE LET d == CHOOSE x \in ds : TRUE
         IN  RatAdd(RatMul(Rat(XOf(d, dates), 1), DateMean(athlete_id, d)),
                    SumXY(ds \ {d}, dates, athlete_id))

\* The least-squares slope by the normal equations:
\* (n Sxy - Sx Sy) / (n Sxx - Sx Sx), with x = 0..n-1.
OlsSlope(athlete_id) ==
    LET dates == DatesOf(athlete_id)
        n == Cardinality(dates)
        sx == (n * (n - 1)) \div 2
        sxx == ((n - 1) * n * (2 * n - 1)) \div 6
    IN  RatDiv(RatSub(RatMul(Rat(n, 1), SumXY(dates, dates, athlete_id)),
                      RatMul(Rat(sx, 1), SumY(dates, athlete_id))),
               Rat(n * sxx - sx * sx, 1))

\* C13: the improvement slope of an athlete is 0.0 when the completions fall
\* on fewer than 2 distinct calendar dates, and otherwise the least-squares
\* slope of the per-date mean final scores against x = 0..n-1 in ascending
\* date order, rounded to 2 decimals; for two dates with means a then b it
\* is b - a.
C13_ImprovementSlope ==
    Leaderboard =>
        \A i \in 1..Len(response.athletes) :
            LET a == TheAthlete(response.athletes[i].uuid).id
                dates == DatesOf(a)
                slope == response.athletes[i].improvement_slope
            IN  /\ Cardinality(dates) < 2 => slope = RatZero
                /\ Cardinality(dates) >= 2 => slope = Round2(OlsSlope(a))
                /\ Cardinality(dates) = 2 =>
                       \E d1, d2 \in dates :
                           /\ d1 < d2
                           /\ slope = Round2(RatSub(DateMean(a, d2), DateMean(a, d1)))

\* An athlete with means 75 on the first date and 90 on the second: 15.0.
C13_Witness ==
    /\ Leaderboard
    /\ \E i \in 1..Len(response.athletes) :
           LET a == TheAthlete(response.athletes[i].uuid).id
           IN  /\ Cardinality(DatesOf(a)) = 2
               /\ \E d1, d2 \in DatesOf(a) :
                      /\ d1 < d2
                      /\ DateMean(a, d1) = Rat(75, 1)
                      /\ DateMean(a, d2) = Rat(90, 1)
               /\ response.athletes[i].improvement_slope = Rat(15, 1)

\* ================================ properties: errors of the progression
\* C17: get_athlete_skill_progression answers 404 exactly when no athlete with
\* the given uuid belongs to the requesting user, and then computes nothing
\* more; for an owned athlete it answers with a report and never raises,
\* whatever is missing (no skills, no events, events without scores, a zero
\* total weight).
C17_NotFoundOnlyWhenNotOwned ==
    Progression =>
        LET res == response.result
        IN  /\ res.status = 404 <=> ~Owned(response.user_id, response.athlete_uuid)
            /\ res.status = 404 => DOMAIN res = {"status"}
            /\ Owned(response.user_id, response.athlete_uuid) =>
                   /\ res.status = 200
                   /\ DOMAIN res = {"status", "day_one", "current"}

\* A report for an athlete whose only events are one that scores a skill of
\* zero weight and one without scores.
C17_Witness ==
    /\ Progression
    /\ Owned(response.user_id, response.athlete_uuid)
    /\ response.result.status = 200
    /\ LET rows == DayOneRows(Committed, TheAthleteId(response.athlete_uuid))
       IN  /\ \E r \in rows : DOMAIN r.scores_breakdown = {}
           /\ Scoring(rows, 1) # {}
           /\ SumWeight(Scoring(rows, 1), 1) = 0
           /\ Len(response.result.day_one) = 3
           /\ \A i \in 1..3 : response.result.day_one[i].average_score = RatZero

\* ===================================== properties: the coach dashboard
ChangePercentCall == response.op = "change_percent"

\* The values of n / d: none when d = 0.
Quotient(n, d) ==
    IF d = 0 THEN {}
    ELSE IF d < 0 THEN {Rat(0 - n, 0 - d)} ELSE {Rat(n, d)}

\* (current - previous) / previous * 100 rounded to 1 decimal, where defined.
PercentChange(current, previous) ==
    {Some(Round1(RatMul(q, Rat(100, 1)))) : q \in Quotient(current - previous, previous)}

\* C14 as claimed: None when previous is None, 100.0 when previous = 0 and
\* current > 0, 0.0 when previous = 0 and current = 0, and otherwise
\* (current - previous) / previous * 100 rounded to 1 decimal, for all
\* integer inputs.
C14_ChangePercentAsClaimed ==
    ChangePercentCall =>
        LET current == response.current
            previous == response.previous
        IN  IF previous = << >> THEN response.result = << >>
            ELSE IF previous[1] = 0 /\ current > 0 THEN response.result = Some(Rat(100, 1))
            ELSE IF previous[1] = 0 /\ current = 0 THEN response.result = Some(RatZero)
            ELSE response.result \in PercentChange(current, previous[1])

\* C14: _calculate_change_percent returns None when previous is None, 100.0
\* when previous = 0 and current > 0, 0.0 when previous = 0 and current <= 0,
\* and otherwise (current - previous) / previous * 100 rounded to 1 decimal.
C14_ChangePercent ==
    ChangePercentCall =>
        LET current == response.current
            previous == response.previous
        IN  IF previous = << >> THEN response.result = << >>
            ELSE IF previous[1] = 0 /\ current > 0 THEN response.result = Some(Rat(100, 1))
            ELSE IF previous[1] = 0 /\ current <= 0 THEN response.result = Some(RatZero)
            ELSE response.result \in PercentChange(current, previous[1])

\* A call with a negative current and previous = 0 has returned 0.0.
C14_Witness ==
    /\ ChangePercentCall
    /\ response.previous = Some(0)
    /\ response.current < 0
    /\ response.result = Some(RatZero)

EngagementCall == response.op = "engagement"

FixedNarrative ==
    [ accelerating |-> "Your team's growth rate is picking up steam. Great work!",
      slowing |-> "Growth has slowed recently. A good time to focus on recruitment.",
      steady |-> "You're maintaining a consistent rate of new athlete sign-ups.",
      stable |-> "Track athlete sign-ups over time to see trends here." ]

\* C15: the growth trend is "stable" when m2 = 0 and m3 = 0, and otherwise
\* "accelerating" if (m1 - m2) > (m2 - m3), "slowing" if (m1 - m2) < (m2 - m3)
\* and "steady" if they are equal; each trend carries its fixed narrative.
C15_GrowthTrend ==
    EngagementCall =>
        LET m1 == response.m1
            m2 == response.m2
            m3 == response.m3
            g == response.growth_insight
        IN  /\ g.trend_type \in {"stable", "accelerating", "slowing", "steady"}
            /\ g.trend_type = "stable" <=> (m2 = 0 /\ m3 = 0)
            /\ g.trend_type = "accelerating" <=>
                   (~(m2 = 0 /\ m3 = 0) /\ (m1 - m2) > (m2 - m3))
            /\ g.trend_type = "slowing" <=>
                   (~(m2 = 0 /\ m3 = 0) /\ (m1 - m2) < (m2 - m3))
            /\ g.trend_type = "steady" <=>
                   (~(m2 = 0 /\ m3 = 0) /\ (m1 - m2) = (m2 - m3))
            /\ g.narrative = FixedNarrative[g.trend_type]

\* m1 = m2 = m3 = 5 has been classified "steady".
C15_Witness ==
    /\ EngagementCall
    /\ response.m1 = 5 /\ response.m2 = 5 /\ response.m3 = 5
    /\ response.growth_insight.trend_type = "steady"

HighlightCall == response.op = "highlight"

SessionsUp ==
    LET change == response.activity.sessions_conducted_month.change_percent
    IN  change # << >> /\ RatLess(Rat(20, 1), change[1])

TeamAccelerating ==
    LET g == response.engagement.growth_insight
    IN  g # << >> /\ g[1].trend_type = "accelerating"

SkillBoost ==
    /\ response.activity.sessions_conducted_month.current > 10
    /\ RatLess(Rat(50, 1), response.skill_stats.athletes_improved_percent)

\* C16: one highlight comes back, the first match of: HIGH_IMPACT when the
\* sessions change_percent is > 20, whatever else; TEAM_GROWTH when the growth
\* trend is "accelerating", whatever the skill statistics; SKILL_BOOST when
\* more than 10 sessions and more than 50% of athletes with scores; DEFAULT.
C16_HighlightPriority ==
    HighlightCall =>
        LET type == response.result.type
        IN  /\ type \in {"HIGH_IMPACT", "TEAM_GROWTH", "SKILL_BOOST", "DEFAULT"}
            /\ SessionsUp => type = "HIGH_IMPACT"
            /\ (~SessionsUp /\ TeamAccelerating) => type = "TEAM_GROWTH"
            /\ (~SessionsUp /\ ~TeamAccelerating /\ SkillBoost) => type = "SKILL_BOOST"
            /\ (~SessionsUp /\ ~TeamAccelerating /\ ~SkillBoost) => type = "DEFAULT"

\* All three conditions held and HIGH_IMPACT came back.
C16_Witness ==
    /\ HighlightCall
    /\ SessionsUp /\ TeamAccelerating /\ SkillBoost
    /\ response.result.type = "HIGH_IMPACT"

\* ============================== properties: scores after a deletion
\* C18: after any sequence of completed operations that add or remove
\* completions of an athlete (saves, recalculations, deletions of sessions
\* and courses, the cleanup of pending sessions), every athlete_skills row
\* (a, s) holds calculate_ema_skill_scores(a)[s] over the history as it
\* stands.
C18_PersistedIsLatestEma ==
    \A r \in athlete_skills :
        \A q \in CompletionQuery(Committed, r.athlete_id) :
            LET scores == calculate_ema_skill_scores(q, None)
            IN  /\ r.skill_id \in DOMAIN scores
                /\ DecimalToFloat(r.current_score) = scores[r.skill_id]

\* ============================== properties: the calculator's skipped input
CalculatorCall == response.op = "calculate_ema_skill_scores"

\* The sessions the fold of the last call went through, in its order.
FoldedSessions ==
    LET sorted == SortSessions(GroupBySession(response.all_completions, << >>))
        RECURSIVE Kept(_)
        Kept(ss) ==
            IF ss = << >> THEN << >>
            ELSE IF Head(ss).session_id = response.exclude_session_id
            THEN Kept(Tail(ss))
            ELSE << Head(ss) >> \o Kept(Tail(ss))
    IN  Kept(sorted)

\* The running state after the first k of these sessions.
StateAfter(k) == FoldSessions(SubSeq(FoldedSessions, 1, k), None, << >>)

\* The weights (hundredths) of the (score, weight) pairs session s has for
\* skill S: one per completion that has its task and a score for S, and per
\* weight row of that task for S.
PairWeights(s, S) ==
    {<< i, j, TaskSkillWeight[s.completions[i].task_id][j].weight >> :
        << i, j >> \in
            {p \in (1..Len(s.completions)) \X (1..2) :
                LET comp == s.completions[p[1]]
                IN  /\ comp.task_id \in DOMAIN TaskSkillWeight
                    /\ p[2] \in 1..Len(TaskSkillWeight[comp.task_id])
                    /\ TaskSkillWeight[comp.task_id][p[2]].skill_id = S
                    /\ SkillKey(S) \in DOMAIN comp.scores_breakdown}}

NoContribution(s, S) == \A w \in PairWeights(s, S) : w[3] = 0

SameStateOf(S, before, after) ==
    /\ (S \in DOMAIN after) = (S \in DOMAIN before)
    /\ S \in DOMAIN before => after[S] = before[S]

\* C19: in the fold, a session in which skill S has no contributing
\* (score, weight) pair - no score for S, no task, or a total weight of 0 -
\* leaves the running state of S as it was: not blended toward 0, not reset,
\* not removed.
C19_SkippedSessionKeepsState ==
    CalculatorCall =>
        \A k \in 1..Len(FoldedSessions), S \in SkillIds :
            NoContribution(FoldedSessions[k], S)
                => SameStateOf(S, StateAfter(k - 1), StateAfter(k))

\* A call whose second session scores skill 1 only under a weight of 0.00 and
\* has a completion of a task weighing skill 1 without a score for it, after a
\* session that gave skill 1 the state 80.
C19_Witness ==
    /\ CalculatorCall
    /\ Len(FoldedSessions) >= 2
    /\ 1 \in DOMAIN StateAfter(1)
    /\ StateAfter(1)[1] = Rat(80, 1)
    /\ PairWeights(FoldedSessions[2], 1) # {}
    /\ NoContribution(FoldedSessions[2], 1)
    /\ \E i \in 1..Len(FoldedSessions[2].completions) :
          LET comp == FoldedSessions[2].completions[i]
          IN  /\ \E j \in 1..Len(TaskSkillWeight[comp.task_id]) :
                    /\ TaskSkillWeight[comp.task_id][j].skill_id = 1
                    /\ TaskSkillWeight[comp.task_id][j].weight > 0
              /\ SkillKey(1) \notin DOMAIN comp.scores_breakdown
    /\ response.scores[1] = Rat(80, 1)

\* ============================== properties: completions without a time
\* The athlete's rows that have a completed_at.
TimedRows ==
    {r \in Committed : r.athlete_id = response.athlete_id /\ r.completed_at # None}

\* C20: completions whose completed_at is null are discarded by
\* calculate_ema_skill_scores: the result is the result over the history
\* without them, none of them is grouped or gives a session its timestamp,
\* and a history of such completions alone gives the empty map.
C20_NullCompletedAtDiscarded ==
    CalculatorCall =>
        LET q == response.all_completions
            sessions_data == GroupBySession(q, << >>)
        IN  /\ \A timed \in CompletionQuery(TimedRows, response.athlete_id) :
                  response.scores
                      = calculate_ema_skill_scores(timed, response.exclude_session_id)
            /\ \A g \in 1..Len(sessions_data) :
                  /\ sessions_data[g].timestamp # None
                  /\ \A i \in 1..Len(sessions_data[g].completions) :
                        sessions_data[g].completions[i].completed_at # None
                  /\ \E i \in 1..Len(q) :
                        /\ q[i].session_id = sessions_data[g].session_id
                        /\ q[i].completed_at = sessions_data[g].timestamp
                        /\ \A j \in 1..(i - 1) :
                              q[j].session_id = sessions_data[g].session_id
                                  => q[j].completed_at = None
            /\ TimedRows = {} => response.scores = << >>

\* A call over a session of a completion with and one without completed_at,
\* and a score that comes of the first alone.
C20_Witness ==
    /\ CalculatorCall
    /\ \E i, j \in 1..Len(response.all_completions) :
          /\ response.all_completions[i].completed_at = None
          /\ response.all_completions[j].completed_at # None
          /\ response.all_completions[i].session_id
                = response.all_completions[j].session_id
          /\ response.all_completions[i].session_id # response.exclude_session_id
    /\ response.scores = (1 :> Rat(100, 1))

\* ================================== properties: the weekly insights
InsightsCall == response.op = "calculate_weekly_insights"

\* C21: the week-over-week change of calculate_weekly_insights is None when
\* the previous count is None, 100.0 when the previous count is 0 and the
\* current count is > 0, and 0.0 when both counts are 0.
C21_WeekChangeSpecialCases ==
    InsightsCall =>
        /\ response.prev_week_count = << >>
              => response.insights.week_change = << >>
        /\ response.prev_week_count = Some(0) /\ response.week_count > 0
              => response.insights.week_change = Some(Rat(100, 1))
        /\ response.prev_week_count = Some(0) /\ response.week_count = 0
              => response.insights.week_change = Some(RatZero)

\* The largest count of the trend of the last call.
MaxOfTrend ==
    CHOOSE m \in {response.trend_data[i].count : i \in 1..7} :
        \A i \in 1..7 : response.trend_data[i].count <= m

C22_SkillBoostAtHalf ==
    (HighlightCall /\ ~SessionsUp /\ ~TeamAccelerating) =>
        LET boost ==
                /\ response.activity.sessions_conducted_month.current > 10
                /\ ~RatLess(response.skill_stats.athletes_improved_percent, Rat(50, 1))
        IN  response.result.type = IF boost THEN "SKILL_BOOST" ELSE "DEFAULT"

\* ============================== properties: who is on the leaderboard
\* C23: the leaderboard has an entry for an athlete only if the athlete has
\* at least one athlete_skills row.
C23_OnlyAthletesWithScores ==
    Leaderboard =>
        \A i \in 1..Len(response.athletes) :
            \E r \in athlete_skills :
                r.athlete_id = TheAthlete(response.athletes[i].uuid).id

\* The place of an athlete in the list the athletes query returned.
FetchedAt(athlete_uuid) ==
    CHOOSE i \in 1..Len(response.all_athletes) :
        response.all_athletes[i].uuid = athlete_uuid

\* C24: the ranks of the leaderboard are 1..n, each once; athletes of equal
\* current_score stand in the order in which they were fetched.
C24_TiesInFetchOrder ==
    Leaderboard =>
        LET L == response.athletes
        IN  /\ Len(L) = Len(response.all_athletes)
            /\ \A k \in 1..Len(L) :
                  Cardinality({i \in 1..Len(L) : L[i].rank = k}) = 1
            /\ \A i \in 1..Len(L) : L[i].rank \in 1..Len(L)
            /\ \A i, j \in 1..Len(L) :
                  (L[i].current_score = L[j].current_score
                      /\ FetchedAt(L[i].uuid) < FetchedAt(L[j].uuid))
                  => L[j].rank = L[i].rank + 1 + Cardinality(
                         {k \in 1..Len(L) :
                             /\ L[k].current_score = L[i].current_score
                             /\ FetchedAt(L[i].uuid) < FetchedAt(L[k].uuid)
                             /\ FetchedAt(L[k].uuid) < FetchedAt(L[j].uuid)})

\* Athlete 1 scores 95; athletes 3 and 2, fetched in that order, have the
\* same score and the ranks 2 and 3.
C24_Witness ==
    /\ Leaderboard
    /\ Len(response.athletes) = 3
    /\ FetchedAt("a3") < FetchedAt("a2")
    /\ LET L == response.athletes
       IN  /\ L[1].uuid = "a1" /\ L[1].current_score = Rat(95, 1)
           /\ L[2].uuid = "a3" /\ L[2].rank = 2
           /\ L[3].uuid = "a2" /\ L[3].rank = 3
           /\ L[2].current_score = L[3].current_score

\* ================================== properties: the day-one scores
\* sum(score * weight) / sum(weight) of a skill over an athlete's events of
\* the earliest date; 0.0 when no pair of that date has a weight.
DayOneAverageOf(athlete_id, skill_id) ==
    LET scoring == Scoring(DayOneRows(Committed, athlete_id), skill_id)
    IN  IF SumWeight(scoring, skill_id) = 0 THEN RatZero
        ELSE RatDiv(SumScoreWeight(scoring, skill_id),
                    Rat(SumWeight(scoring, skill_id), 1))

\* The athlete's events of a date after the earliest.
LaterRows(athlete_id) ==
    RowsOf(Committed, athlete_id) \ DayOneRows(Committed, athlete_id)

ProgressionOk ==
    /\ Progression
    /\ Owned(response.user_id, response.athlete_uuid)
    /\ response.result.status = 200

\* C25 as claimed: the day_one score of a skill is the weighted average
\* sum(score * weight) / sum(weight) over the athlete's events of the earliest
\* calendar date with an event.
C25_DayOneExactAverage ==
    ProgressionOk =>
        \A i \in 1..Len(response.result.day_one) :
            response.result.day_one[i].average_score
                = DayOneAverageOf(TheAthleteId(response.athlete_uuid),
                                  response.result.day_one[i].skill_id)

\* C25: the day_one score of a skill is that weighted average rounded to 2
\* decimals (0.0 for a skill without a weighted pair on that date); the
\* report is the same without any of the events of later dates; without
\* events every day_one score is 0.0 and the list holds the whole catalogue.
C25_DayOneAverage ==
    ProgressionOk =>
        LET res == response.result
            a == TheAthleteId(response.athlete_uuid)
        IN  /\ \A i \in 1..Len(res.day_one) :
                  res.day_one[i].average_score
                      = Round2(DayOneAverageOf(a, res.day_one[i].skill_id))
            /\ \A later \in SUBSET LaterRows(a) :
                  get_athlete_skill_progression(
                      response.user_id, response.athlete_uuid,
                      Committed \ later, athlete_skills).day_one = res.day_one
            /\ RowsOf(Committed, a) = {} =>
                  /\ Len(res.day_one) = Cardinality(Catalog(response.user_id))
                  /\ \A i \in 1..Len(res.day_one) :
                        res.day_one[i].average_score = RatZero

\* Two events of the first date average 93.33 for skill 1 (280/3), and an
\* event of a later date scores it 95.
C25_Witness ==
    /\ ProgressionOk
    /\ LET a == TheAthleteId(response.athlete_uuid)
       IN  /\ Cardinality(DayOneRows(Committed, a)) = 2
           /\ DayOneAverageOf(a, 1) = Rat(280, 3)
           /\ response.result.day_one[1].average_score = Rat(9333, 100)
           /\ \E r \in LaterRows(a) : TheScore(r, 1) = Rat(95, 1)

\* ================================== properties: the range of the result
\* The raw scores of skill S in the pairs the last call folded: those of the
\* athlete's timed completions outside the excluded session whose task weighs
\* S.
RawScores(S) ==
    {TheScore(r, S) :
        r \in {x \in Scoring(TimedRows, S) :
                  /\ x.session_id # response.exclude_session_id
                  /\ TheWeight(x, S) > 0}}

RatLeq(x, y) == ~RatLess(y, x)

\* C27 as claimed: every value of the result lies between the minimum and
\* the maximum raw score of its skill.
C27_WithinRawRange ==
    CalculatorCall =>
        \A S \in DOMAIN response.scores :
            \E lo, hi \in RawScores(S) :
                /\ RatLeq(lo, response.scores[S])
                /\ RatLeq(response.scores[S], hi)

\* C27: every value of the result lies between the minimum and the maximum
\* raw score of its skill, each rounded to 2 decimals; raw scores in
\* [0, 100] give results in [0, 100].
C27_WithinRoundedRawRange ==
    CalculatorCall =>
        \A S \in DOMAIN response.scores :
            /\ \E lo, hi \in RawScores(S) :
                  /\ RatLeq(Round2(lo), response.scores[S])
                  /\ RatLeq(response.scores[S], Round2(hi))
            /\ (\A x \in RawScores(S) : RatLeq(RatZero, x) /\ RatLeq(x, Rat(100, 1)))
                  => /\ RatLeq(RatZero, response.scores[S])
                     /\ RatLeq(response.scores[S], Rat(100, 1))

\* Two sessions scoring skill 1 at 80.006 and 100: the result, 86.0, is
\* strictly between them.
C27_Witness ==
    /\ CalculatorCall
    /\ RawScores(1) = {Rat(80006, 1000), Rat(100, 1)}
    /\ 1 \in DOMAIN response.scores
    /\ response.scores[1] = Rat(86, 1)

\* ================================== properties: what the update leaves
\* C28: update_athlete_skill_scores(a) writes only rows (a, s) for the
\* skills s of the newly computed map, with the map's value: no row is ever
\* deleted, a row of a whose skill is absent from the new map keeps its
\* score, and the rows of athletes the step does not update are unchanged.
C28_UpdateWritesOnlyComputed ==
    [][LET written == athlete_skills' \ athlete_skills
           updated == {x.athlete_id : x \in written}
           added == task_completions' \ task_completions
       IN  /\ \A r \in athlete_skills : \E x \in athlete_skills' : SameKey(r, x)
           /\ \A x \in written :
                 \A q \in CompletionQuery(Committed', x.athlete_id) :
                     LET scores == calculate_ema_skill_scores(q, None)
                     IN  /\ x.skill_id \in DOMAIN scores
                         /\ x.current_score = ToNumeric(scores[x.skill_id])
           /\ \A r \in athlete_skills :
                 (\A q \in CompletionQuery(Committed', r.athlete_id) :
                      r.skill_id \notin DOMAIN calculate_ema_skill_scores(q, None))
                 => r \in athlete_skills'
           /\ IF added # {} THEN updated \subseteq {r.athlete_id : r \in added}
              ELSE Cardinality(updated) <= 1]_vars

\* Athlete 1 was scored 90 and 60 on skills 1 and 2 in a session since
\* deleted, then 80 on skill 1 alone: the row of skill 2 still says 60.00,
\* the row of skill 1 says 80.00, and athlete 2 has a row.
C28_Witness ==
    /\ {r.task_id : r \in RowsOf(Committed, 1)} = {1}
    /\ [athlete_id |-> 1, skill_id |-> 1, current_score |-> 8000] \in athlete_skills
    /\ [athlete_id |-> 1, skill_id |-> 2, current_score |-> 6000] \in athlete_skills
    /\ \E r \in athlete_skills : r.athlete_id = 2

\* ================================== properties: the rate limiter
\* The accepted calls of identifier made less than the window before at.
AcceptedWithin(identifier, at, window_minutes) ==
    LET times == accepted_calls.rate_limit_store[identifier]
    IN  {i \in 1..Len(times) : at - times[i] < timedelta(window_minutes)}

\* A step that is a call of the limiter and not the clock's: the call's
\* identifier and status are in the response the step leaves.
LimiterStep == now' = now /\ vars' # vars

\* What one call of the limiter does, told from the history alone.
CallFollowsHistory ==
    LimiterStep =>
        LET identifier == response'.identifier
            before == Cardinality(AcceptedWithin(identifier, now, WindowMinutes))
            stored == rate_limit_store[identifier]
            stored_after == rate_limit_store'[identifier]
        IN  /\ response'.status \in {200, 429}
            /\ response'.status = 429 <=> before >= MaxRequests
            /\ before <= MaxRequests
            /\ response'.status = 200 =>
                  /\ Len(stored_after) = before + 1
                  /\ stored_after[Len(stored_after)] = now
            /\ response'.status = 429 =>
                  /\ Len(stored_after) = before
                  /\ Len(stored_after) <= Len(stored)
            /\ \A i \in 1..Len(stored_after) :
                  now - stored_after[i] < timedelta(WindowMinutes)
            /\ \A other \in Identifiers \ {identifier} :
                  rate_limit_store'[other] = rate_limit_store[other]

\* No window of the length, taken from an accepted call on, holds more than
\* max_requests accepted calls.
NoWindowOverfull ==
    \A identifier \in Identifiers :
        LET times == accepted_calls.rate_limit_store[identifier]
        IN  \A i \in 1..Len(times) :
                Cardinality({j \in 1..Len(times) :
                                /\ times[j] >= times[i]
                                /\ times[j] - times[i] < timedelta(WindowMinutes)})
                    <= MaxRequests

\* C29: in a sequence of check_rate_limit calls for one identifier, a call
\* is rejected with 429 exactly when max_requests accepted calls were made
\* less than window_minutes before it; an accepted call appends its
\* timestamp, a rejected call appends none, the timestamps a window old or
\* older are dropped, and no window of that length (closed at its start, open
\* at its end) ever holds more than max_requests accepted calls.
C29_RateLimitWindow == [][CallFollowsHistory]_vars /\ []NoWindowOverfull

\* A call is rejected after the identifier was accepted again once a window
\* had passed: more than max_requests accepted calls lie behind it.
C29_Witness ==
    /\ response # NoResponse
    /\ response.op = "check_rate_limit"
    /\ response.status = 429
    /\ Len(accepted_calls.rate_limit_store[response.identifier]) > MaxRequests

====
